---- MODULE Spec2Model ----
(***************************************************************************)
(* Model of the ABI Agent: the LangGraph pipeline planner -> executor /     *)
(* sql_node / viz_node -> responder (src/src/agents) and the three tools    *)
(* it drives (src/src/tools.py): the two self-healing retry loops           *)
(* PolarsAnalyst.analyze and VizGenerator.generate, and the single-shot     *)
(* SQLGenerator.generate.                                                   *)
(*                                                                          *)
(* Encoding of Python values.  Every Python value the model manipulates is  *)
(* a sequence of tokens: a str is the sequence of its lexemes ("" is <<>>), *)
(* None is the one-token sequence None, a LazyFrame / DataFrame / Figure is *)
(* a sequence headed by its type name.  A dict is a function from its keys. *)
(***************************************************************************)
EXTENDS Integers, Sequences, FiniteSets, TLC

VARIABLES
    settings,   \* get_settings(): the cached configuration (config.py)
    state,      \* the AgentState threaded through the graph (state.py)
    node,       \* the graph position: the node running or about to run
    status,     \* "running" | "ended" | "crashed" (graph.invoke raised)
    trace,      \* the nodes executed so far in this run, in order
    loop,       \* locals of the retry loop in progress (analyze / generate)
    loopCalls,  \* the attempts of the tool invocation made by the last
                \* executor-type node, until the next node runs
    toolResult, \* the dict that invocation returned ("none" tool when none has)
    llmCalls,   \* every llm.invoke of this run: component and model used
    respContext,\* the context the responder last sent to the model
    lastResponse, \* what llm.invoke did when the running node last called it
    run,        \* number of questions asked so far in this session
    previous,   \* what a caller that invokes a node function on its own has
                \* kept of an earlier call that succeeded at once, and whether
                \* its latest call ended in the terminal failure of a loop
    session_lf  \* st.session_state.lf of app.py: the dataset handle of the
                \* session, None until a file has been uploaded

vars == <<settings, state, node, status, trace, loop, loopCalls, toolResult,
          llmCalls, respContext, lastResponse, run, previous, session_lf>>

----------------------------------------------------------------------------
(* Bounds of the model and constants of the program *)

\* questions asked in one session (app.py re-invokes the graph per question)
MaxRuns == 2

\* calls a caller makes of a node function on its own, one after the other
MaxCalls == 3

\* PolarsAnalyst.__init__: self._max_retries = 3
PolarsMaxRetries == 3

\* VizGenerator.__init__: self._max_retries = 3
VizMaxRetries == 3

\* response_text[:300] in the missing-<code> error of PolarsAnalyst.analyze
RawResponseLimit == 300

----------------------------------------------------------------------------
(* Python values *)

None == <<"\\None">>
EmptyStr == <<>>
JTrue == <<"\\True">>
JFalse == <<"\\False">>

\* Python truthiness of a value: None, False and "" are falsy
Truthy(v) == v \notin {None, JFalse, EmptyStr}

\* the empty dict {}
EmptyDict == [k \in {} |-> EmptyStr]

\* d.get(k, default) on a dict
DictGet(d, k, default) == IF k \in DOMAIN d THEN d[k] ELSE default

\* whitespace lexemes
IsSpace(tok) == tok \in {" ", "\n"}

RECURSIVE LStrip(_)
LStrip(s) == IF s # <<>> /\ IsSpace(Head(s)) THEN LStrip(Tail(s)) ELSE s

RECURSIVE RStrip(_)
RStrip(s) ==
    IF s # <<>> /\ IsSpace(s[Len(s)]) THEN RStrip(SubSeq(s, 1, Len(s) - 1)) ELSE s

\* str.strip()
Strip(s) == LStrip(RStrip(s))

\* text[:n]
Truncate(s, n) == IF Len(s) <= n THEN s ELSE SubSeq(s, 1, n)

OpenTag(tag) == "<" \o tag \o ">"
CloseTag(tag) == "</" \o tag \o ">"

\* re.search(rf"<{tag}>(.*?)</{tag}>", text, re.DOTALL): the leftmost opening
\* tag that some closing tag follows, up to the first closing tag after it.
\* The result is <<i, j>> (positions of the two tags) or <<0, 0>> (no match).
TagMatch(text, tag) ==
    LET opens == {i \in 1..Len(text) :
                     /\ text[i] = OpenTag(tag)
                     /\ \E j \in (i+1)..Len(text) : text[j] = CloseTag(tag)}
    IN  IF opens = {} THEN <<0, 0>>
        ELSE LET i == CHOOSE x \in opens : \A y \in opens : x <= y
                 j == CHOOSE x \in (i+1)..Len(text) :
                         /\ text[x] = CloseTag(tag)
                         /\ \A y \in (i+1)..(x-1) : text[y] # CloseTag(tag)
             IN  <<i, j>>

\* _extract_tag(text, tag)
ExtractTag(text, tag) ==
    LET m == TagMatch(text, tag)
    IN  IF m[1] = 0 THEN EmptyStr
        ELSE Strip(SubSeq(text, m[1] + 1, m[2] - 1))

----------------------------------------------------------------------------
(* Exceptions and results of operations that may raise *)

NoExc == [type |-> "", msg |-> EmptyStr, site |-> ""]

\* an exception object: type(exc).__name__, str(exc) and the frame of the
\* traceback that raised it (traceback.format_exc())
Exc(type, msg, site) == [type |-> type, msg |-> msg, site |-> site]

Returned(v) == [ok |-> TRUE, val |-> v, exc |-> NoExc]
Raised(e) == [ok |-> FALSE, val |-> None, exc |-> e]

----------------------------------------------------------------------------
(* Configuration and the model factory *)

Providers == {"google", "groq", "openai"}

\* build_llm(use_fallback): the model name comes from
\* settings.llm.models[provider] (KeyError when the provider has no model
\* pair), then the provider selects the client class
BuildLlm(cfg, use_fallback) ==
    IF cfg.provider \notin cfg.models
    THEN Raised(Exc("KeyError", <<cfg.provider>>, "build_llm"))
    ELSE IF cfg.provider \in {"google", "groq"}
    THEN Returned(<<cfg.provider, IF use_fallback THEN "fallback" ELSE "primary">>)
    ELSE Raised(Exc("ValueError", <<"Unsupported provider", cfg.provider>>,
                    "build_llm"))

\* LLMConfig.active_primary_model: self.models[self.provider].primary, a
\* KeyError when the provider has no model pair
ActivePrimaryModel(cfg) ==
    IF cfg.provider \notin cfg.models
    THEN Raised(Exc("KeyError", <<cfg.provider>>, "active_primary_model"))
    ELSE Returned(<<cfg.provider, "primary">>)

\* what llm.invoke can do: raise, or return a response whose content is text
InvokeRaises(msg) == [raises |-> TRUE, text |-> EmptyStr, msg |-> msg]
InvokeReturns(text) == [raises |-> FALSE, text |-> text, msg |-> EmptyStr]

\* no llm.invoke made yet by the running node
NoOutcome == [raises |-> FALSE, text |-> <<"\\no call">>, msg |-> EmptyStr]

\* the failure of the external model client seen by llm.invoke: a timeout,
\* whose str() is empty
InvokeFailures == {InvokeRaises(EmptyStr)}

----------------------------------------------------------------------------
(* Datasets *)

\* raw_dataframe: absent, a LazyFrame that materializes, or a LazyFrame whose
\* schema can be read but whose rows fail to load on collect()
LfGood == <<"LazyFrame", "orders.csv">>
LfBroken == <<"LazyFrame", "broken.csv">>
Datasets == {None, LfGood, LfBroken}

IsLazyFrame(v) == v # <<>> /\ Head(v) = "LazyFrame"
IsDataFrame(v) == v # <<>> /\ Head(v) = "DataFrame"
IsFigure(v) == v # <<>> /\ Head(v) = "Figure"

\* type(v).__name__
TypeName(v) ==
    IF v = None THEN "NoneType"
    ELSE IF IsLazyFrame(v) THEN "LazyFrame"
    ELSE IF IsDataFrame(v) THEN "DataFrame"
    ELSE IF IsFigure(v) THEN "Figure"
    ELSE IF v \in {JTrue, JFalse} THEN "bool"
    ELSE "str"

\* a collect that hands back the lazy handle itself
CollectKeepsHandle(lf) == Returned(lf)

\* lf.collect(): the materialized table, or the loader's error
Collect(lf) ==
    IF lf = LfGood THEN Returned(<<"DataFrame", "collect", lf[2]>>)
    ELSE Raised(Exc("ComputeError", <<"could not parse", lf[2]>>, "collect"))

----------------------------------------------------------------------------
(* exec(code, namespace): the generated code is a sequence of statements *)

Statements ==
    {"result=lf.collect()", "result=lf.head(5).collect()", "result=lf",
     "result=None", "fig=px.bar(df)", "fig=df", "fig=None", "tmp=1", "tmp",
     "raise ValueError('boom')", "raise ValueError()", " ", "\n"}

\* namespace with name bound to value
Bind(ns, name, v) ==
    [n \in DOMAIN ns \cup {name} |-> IF n = name THEN v ELSE ns[n]]

NameError(name) == Exc("NameError", <<"name", name, "is not defined">>, "<string>")

\* one statement run in namespace ns: the namespace after it, or the exception
ExecStmt(stmt, ns) ==
    CASE stmt = "result=lf.collect()" ->
           IF "lf" \notin DOMAIN ns THEN Raised(NameError("lf"))
           ELSE LET c == Collect(ns["lf"])
                IN  IF c.ok THEN Returned(Bind(ns, "result", c.val))
                    ELSE Raised(Exc(c.exc.type, c.exc.msg, "<string>"))
      [] stmt = "result=lf.head(5).collect()" ->
           IF "lf" \notin DOMAIN ns THEN Raised(NameError("lf"))
           ELSE LET c == Collect(ns["lf"])
                IN  IF c.ok
                    THEN Returned(Bind(ns, "result", <<"DataFrame", "head", ns["lf"][2]>>))
                    ELSE Raised(Exc(c.exc.type, c.exc.msg, "<string>"))
      [] stmt = "result=lf" ->
           IF "lf" \notin DOMAIN ns THEN Raised(NameError("lf"))
           ELSE Returned(Bind(ns, "result", ns["lf"]))
      [] stmt = "result=None" -> Returned(Bind(ns, "result", None))
      [] stmt = "fig=px.bar(df)" ->
           IF "px" \notin DOMAIN ns THEN Raised(NameError("px"))
           ELSE IF "df" \notin DOMAIN ns THEN Raised(NameError("df"))
           ELSE Returned(Bind(ns, "fig", <<"Figure", "bar">> \o Tail(ns["df"])))
      [] stmt = "fig=df" ->
           IF "df" \notin DOMAIN ns THEN Raised(NameError("df"))
           ELSE Returned(Bind(ns, "fig", ns["df"]))
      [] stmt = "fig=None" -> Returned(Bind(ns, "fig", None))
      [] stmt = "tmp=1" -> Returned(Bind(ns, "tmp", <<"1">>))
      [] stmt = "tmp" ->
           IF "tmp" \notin DOMAIN ns THEN Raised(NameError("tmp"))
           ELSE Returned(ns)
      [] stmt = "raise ValueError('boom')" ->
           Raised(Exc("ValueError", <<"boom">>, "<string>"))
      [] stmt = "raise ValueError()" ->
           Raised(Exc("ValueError", EmptyStr, "<string>"))
      [] OTHER -> Returned(ns)

RECURSIVE ExecFrom(_, _)
ExecFrom(code, ns) ==
    IF code = <<>> THEN Returned(ns)
    ELSE LET r == ExecStmt(Head(code), ns)
         IN  IF r.ok THEN ExecFrom(Tail(code), r.val) ELSE r

\* exec(code, namespace): the code is compiled whole first, so a lexeme that
\* is no statement raises SyntaxError before anything runs
Exec(code, ns) ==
    IF \E i \in 1..Len(code) : code[i] \notin Statements
    THEN Raised(Exc("SyntaxError", <<"invalid syntax">>, "<string>"))
    ELSE ExecFrom(code, ns)

\* namespace.get(name)
NsGet(ns, name) == IF name \in DOMAIN ns THEN ns[name] ELSE None

----------------------------------------------------------------------------
(* Text helpers of the prompts *)

RECURSIVE Join(_, _)
\* sep.join(parts)
Join(parts, sep) ==
    IF parts = <<>> THEN <<>>
    ELSE IF Len(parts) = 1 THEN parts[1]
    ELSE parts[1] \o <<sep>> \o Join(Tail(parts), sep)

\* sub occurs in text as a contiguous run of lexemes
Contains(text, sub) ==
    \E i \in 0..(Len(text) - Len(sub)) : SubSeq(text, i + 1, i + Len(sub)) = sub

\* _get_schema_info(lf): column names and types, read without loading rows
SchemaInfo(lf) ==
    <<"Dataset columns:", "supplier_name: String", "total_revenue: Float64">>

Questions ==
    {<<"Top 5 suppliers by total revenue?">>, <<"Bar chart of revenue by category">>}

----------------------------------------------------------------------------
(* PolarsAnalyst *)

\* _build_prompt showing the model only the latest error
AnalystBuildPromptLastErrorOnly(question, schema_info, error_history) ==
    LET base == schema_info \o <<"Question:">> \o question
                  \o <<"Write Polars code to answer this question.">>
    IN  IF error_history = <<>> THEN base
        ELSE base \o <<"YOUR PREVIOUS CODE FAILED. Study these errors and fix them:">>
                  \o error_history[Len(error_history)]
                  \o <<"Write corrected code now.">>

\* PolarsAnalyst._build_prompt(question, schema_info, error_history)
AnalystBuildPrompt(question, schema_info, error_history) ==
    LET base == schema_info \o <<"Question:">> \o question
                  \o <<"Write Polars code to answer this question.">>
    IN  IF error_history = <<>> THEN base
        ELSE base \o <<"YOUR PREVIOUS CODE FAILED. Study these errors and fix them:">>
                  \o Join(error_history, "\n\n---\n")
                  \o <<"Write corrected code now.">>

\* the error_msg of PolarsAnalyst.analyze: attempt, type(exc).__name__,
\* str(exc) and traceback.format_exc()
AnalystErrorMsg(attempt, exc) ==
    <<"Attempt", ToString(attempt), "failed.", "Error type:", exc.type,
      "Error message:">> \o exc.msg \o <<"Traceback:", exc.site>>

\* a namespace dict kept from one attempt to the next: a name bound by the
\* code of an earlier attempt of the invocation is still bound
AnalystNamespaceKeptAcrossAttempts(lf) ==
    LET fresh == [n \in {"pl", "lf"} |-> IF n = "pl" THEN <<"module", "polars">> ELSE lf]
        ran(i) == loopCalls[i].executed
        has(i, stmt) == \E j \in 1..Len(loopCalls[i].code) : loopCalls[i].code[j] = stmt
        withTmp == IF \E i \in 1..Len(loopCalls) : ran(i) /\ has(i, "tmp=1")
                   THEN Bind(fresh, "tmp", <<"1">>) ELSE fresh
    IN  IF \E i \in 1..Len(loopCalls) : ran(i) /\ has(i, "result=lf")
        THEN Bind(withTmp, "result", lf) ELSE withTmp

\* the namespace PolarsAnalyst._run_code hands to exec
AnalystNamespace(lf) ==
    [n \in {"pl", "lf"} |-> IF n = "pl" THEN <<"module", "polars">> ELSE lf]

\* _run_code without the isinstance check of result
RunCodeNoTypeCheck(code, lf) ==
    LET r == Exec(code, AnalystNamespace(lf))
    IN  IF ~r.ok THEN r
        ELSE LET result == NsGet(r.val, "result")
             IN  IF result = None
                 THEN Raised(Exc("ValueError",
                          <<"Code did not define a result variable.">>, "_run_code"))
                 ELSE Returned(result)

\* PolarsAnalyst._run_code(code, lf)
RunCode(code, lf) ==
    LET r == Exec(code, AnalystNamespace(lf))
    IN  IF ~r.ok THEN r
        ELSE LET result == NsGet(r.val, "result")
             IN  IF result = None
                 THEN Raised(Exc("ValueError",
                          <<"Code did not define a result variable.">>, "_run_code"))
                 ELSE IF ~IsDataFrame(result)
                 THEN Raised(Exc("ValueError",
                          <<"result must be a polars.DataFrame, got", TypeName(result),
                            "Did you forget .collect() at the end?">>, "_run_code"))
                 ELSE Returned(result)

\* a try block without the missing-code check: whatever was extracted is run
AnalystTryRunsEmptyCode(lf, out) ==
    IF out.raises
    THEN [assigned |-> FALSE, code |-> EmptyStr, executed |-> FALSE,
          res |-> Raised(Exc("TimeoutError", out.msg, "invoke"))]
    ELSE LET code == ExtractTag(out.text, "code")
         IN  [assigned |-> TRUE, code |-> code, executed |-> TRUE,
              res |-> RunCode(code, lf)]

\* the try block of one iteration of PolarsAnalyst.analyze: llm.invoke,
\* _extract_tag, the missing-code check and _run_code.  out is what llm.invoke
\* does.  code is the value of the local `code` assigned by this iteration
\* (assigned |-> FALSE when llm.invoke raised before the assignment).
AnalystTry(lf, out) ==
    IF out.raises
    THEN [assigned |-> FALSE, code |-> EmptyStr, executed |-> FALSE,
          res |-> Raised(Exc("TimeoutError", out.msg, "invoke"))]
    ELSE LET code == ExtractTag(out.text, "code")
         IN  IF code = EmptyStr
             THEN [assigned |-> TRUE, code |-> code, executed |-> FALSE,
                   res |-> Raised(Exc("ValueError",
                             <<"LLM did not return a <code> block. Raw response:">>
                               \o Truncate(out.text, RawResponseLimit), "analyze"))]
             ELSE [assigned |-> TRUE, code |-> code, executed |-> TRUE,
                   res |-> RunCode(code, lf)]

----------------------------------------------------------------------------
(* VizGenerator *)

\* base_prompt and prompt of VizGenerator.generate
VizBuildPrompt(question, df, error_history) ==
    LET base_prompt == <<"Columns:">> \o Tail(df) \o <<"Sample rows:">> \o Tail(df)
                         \o <<"Chart request:">> \o question
                         \o <<"Write Plotly code. DataFrame is df.">>
    IN  IF error_history # <<>>
        THEN base_prompt \o <<"Fix these errors:">> \o Join(error_history, "\n\n---\n")
        ELSE base_prompt

\* the error_msg of VizGenerator.generate
VizErrorMsg(attempt, exc) ==
    <<"Attempt", ToString(attempt), exc.type>> \o exc.msg \o <<exc.site>>

\* the namespace handed to exec by VizGenerator.generate
VizNamespace(df) ==
    [n \in {"df", "go", "px", "pl"} |->
        CASE n = "df" -> df
          [] n = "go" -> <<"module", "plotly.graph_objects">>
          [] n = "px" -> <<"module", "plotly.express">>
          [] OTHER -> <<"module", "polars">>]

\* exec of the chart code and the check of `fig` in VizGenerator.generate
VizRunCode(code, df) ==
    LET r == Exec(code, VizNamespace(df))
    IN  IF ~r.ok THEN r
        ELSE LET fig == NsGet(r.val, "fig")
             IN  IF fig = None
                 THEN Raised(Exc("ValueError",
                          <<"Code did not define a fig variable.">>, "generate"))
                 ELSE Returned(fig)

\* the try block of one iteration of VizGenerator.generate
VizTry(df, out) ==
    IF out.raises
    THEN [assigned |-> FALSE, code |-> EmptyStr, executed |-> FALSE,
          res |-> Raised(Exc("TimeoutError", out.msg, "invoke"))]
    ELSE LET code == ExtractTag(out.text, "code")
         IN  IF code = EmptyStr
             THEN [assigned |-> TRUE, code |-> code, executed |-> FALSE,
                   res |-> Raised(Exc("ValueError",
                             <<"LLM returned no <code> block.">>, "generate"))]
             ELSE [assigned |-> TRUE, code |-> code, executed |-> TRUE,
                   res |-> VizRunCode(code, df)]

----------------------------------------------------------------------------
(* SQLGenerator *)

\* conn.execute(sql_query).pl() of the embedded engine on table sc_data
DuckDbExecute(sql_query, sc_data) ==
    IF sql_query = <<"SELECT * FROM sc_data WHERE delayed">>
    THEN Returned(<<"DataFrame", "sql">> \o Tail(Tail(sc_data)))
    ELSE Raised(Exc("ParserException", <<"syntax error in SQL">>, "execute"))

\* the try block of SQLGenerator.generate.  The result carries the local
\* sql_query as it stands when the block is left, and whether the query ran.
SqlTry(lf, out) ==
    IF out.raises
    THEN [sql_query |-> EmptyStr, executed |-> FALSE,
          res |-> Raised(Exc("TimeoutError", out.msg, "invoke"))]
    ELSE LET sql_query == ExtractTag(out.text, "sql")
         IN  IF sql_query = EmptyStr
             THEN [sql_query |-> sql_query, executed |-> FALSE,
                   res |-> Raised(Exc("ValueError",
                             <<"LLM did not return a <sql> block.">>, "generate"))]
             ELSE LET sc_data == Collect(lf)
                  IN  IF ~sc_data.ok
                      THEN [sql_query |-> sql_query, executed |-> FALSE, res |-> sc_data]
                      ELSE [sql_query |-> sql_query, executed |-> TRUE,
                            res |-> DuckDbExecute(sql_query, sc_data.val)]

\* generate returning an empty query text on every failure
SqlGenerateDropsQuery(lf, out) ==
    LET t == SqlTry(lf, out)
    IN  IF t.res.ok
        THEN [tool |-> "sql", success |-> TRUE, payload |-> t.res.val,
              code |-> t.sql_query, error |-> None, attempts |-> 1]
        ELSE [tool |-> "sql", success |-> FALSE, payload |-> None,
              code |-> EmptyStr, error |-> t.res.exc.msg, attempts |-> 1]

\* the dict SQLGenerator.generate returns
SqlGenerate(lf, out) ==
    LET t == SqlTry(lf, out)
    IN  IF t.res.ok
        THEN [tool |-> "sql", success |-> TRUE, payload |-> t.res.val,
              code |-> t.sql_query, error |-> None, attempts |-> 1]
        ELSE [tool |-> "sql", success |-> FALSE, payload |-> None,
              code |-> t.sql_query, error |-> t.res.exc.msg, attempts |-> 1]

----------------------------------------------------------------------------
(* Planner *)

\* a JSON array, as json.loads gives it: a Python list
JList(items) == <<"\\list">> \o items

\* hash(v) is defined: a list is unhashable
IsHashable(v) == ~(v # <<>> /\ Head(v) = "\\list")

PlanKeys ==
    {"intent", "primary_task", "requires_sql", "requires_viz", "chart_type",
     "complexity", "routing"}

\* a JSON object with the seven plan keys
PlanObject(intent, sql, viz, chart, routing) ==
    [k \in PlanKeys |->
        CASE k = "intent" -> <<intent>>
          [] k = "primary_task" -> <<"task">>
          [] k = "requires_sql" -> sql
          [] k = "requires_viz" -> viz
          [] k = "chart_type" -> chart
          [] k = "complexity" -> <<"low">>
          [] OTHER -> routing]

\* the JSON texts the model's plan section is drawn from, as lexemes, and the
\* value json.loads gives each: an object, or a value that is no object
JsonObjectLexemes ==
    {"{analysis}", "{multi,bar}", "{sql,viz}", "{viz,pie}", "{responder}",
     "{intent only}", "{routing:dashboard}", "{routing:[executor]}"}

JsonOtherLexemes == {"[1]", "42"}

JsonObject(lexeme) ==
    CASE lexeme = "{analysis}" ->
           PlanObject("analysis", JFalse, JFalse, None, <<"executor">>)
      [] lexeme = "{multi,bar}" ->
           PlanObject("multi", JFalse, JTrue, <<"bar">>, <<"multi">>)
      [] lexeme = "{sql,viz}" ->
           PlanObject("sql", JTrue, JTrue, None, <<"sql_node">>)
      [] lexeme = "{viz,pie}" ->
           PlanObject("visualization", JFalse, JTrue, <<"pie">>, <<"viz_node">>)
      [] lexeme = "{responder}" ->
           PlanObject("analysis", JFalse, JFalse, None, <<"responder">>)
      [] lexeme = "{intent only}" ->
           [k \in {"intent"} |-> <<"analysis">>]
      [] lexeme = "{routing:[executor]}" ->
           PlanObject("analysis", JFalse, JFalse, None, JList(<<"executor">>))
      [] OTHER ->
           PlanObject("analysis", JFalse, <<"false">>, EmptyStr, <<"dashboard">>)

\* json.loads(raw_json): whitespace around one JSON value is allowed;
\* anything else (no value, text that is not JSON, data after the value)
\* raises JSONDecodeError
JsonLoads(raw_json) ==
    LET body == Strip(raw_json)
    IN  IF Len(body) = 1 /\ body[1] \in JsonObjectLexemes
        THEN [kind |-> "dict", val |-> JsonObject(body[1])]
        ELSE IF Len(body) = 1 /\ body[1] \in JsonOtherLexemes
        THEN [kind |-> "other", val |-> EmptyDict]
        ELSE [kind |-> "error", val |-> EmptyDict]

\* a default plan that asks for a chart
DefaultPlanWithViz(question) ==
    [k \in PlanKeys |->
        CASE k = "intent" -> <<"multi">>
          [] k = "primary_task" -> question
          [] k = "requires_sql" -> JFalse
          [] k = "requires_viz" -> JTrue
          [] k = "chart_type" -> None
          [] k = "complexity" -> <<"low">>
          [] OTHER -> <<"multi">>]

\* the safe default plan of planner_node
DefaultPlan(question) ==
    [k \in PlanKeys |->
        CASE k = "intent" -> <<"analysis">>
          [] k = "primary_task" -> question
          [] k = "requires_sql" -> JFalse
          [] k = "requires_viz" -> JFalse
          [] k = "chart_type" -> None
          [] k = "complexity" -> <<"low">>
          [] OTHER -> <<"executor">>]

\* raw_json of planner_node: the content of the <plan> section, or the whole
\* response when there is none
PlannerRawJson(response_text) ==
    LET m == TagMatch(response_text, "plan")
    IN  IF m[1] # 0 THEN Strip(SubSeq(response_text, m[1] + 1, m[2] - 1))
        ELSE Strip(response_text)

\* the plan of planner_node: json.loads, with the default on JSONDecodeError
PlannerParse(question, response_text) ==
    LET parsed == JsonLoads(PlannerRawJson(response_text))
    IN  IF parsed.kind = "error"
        THEN [kind |-> "dict", val |-> DefaultPlan(question)]
        ELSE parsed

\* next_node of planner_node: plan.get("routing", "executor"), multi remapped
PlannerNextNode(plan) ==
    LET next_node == DictGet(plan, "routing", <<"executor">>)
    IN  IF next_node = <<"multi">> THEN <<"executor">> ELSE next_node

----------------------------------------------------------------------------
(* The shared state and the graph *)

StateFields ==
    {"messages", "user_question", "raw_dataframe", "plan", "next_node",
     "analysis_result", "generated_code", "sql_query", "sql_result", "figure",
     "error", "retry_count", "final_answer"}

\* initial_state of app.py for a question and the session's dataset
InitialState(question, lf) ==
    [messages |-> <<>>, user_question |-> question, raw_dataframe |-> lf,
     plan |-> EmptyDict, next_node |-> EmptyStr, analysis_result |-> None,
     generated_code |-> EmptyStr, sql_query |-> EmptyStr, sql_result |-> None,
     figure |-> None, error |-> None, retry_count |-> 0,
     final_answer |-> EmptyStr]

\* a merge that takes the node's return value as the whole new state: a
\* field the node did not return falls back to its empty value
MergeReplacesState(st, update) ==
    [f \in StateFields |->
        IF f \in DOMAIN update THEN update[f]
        ELSE IF f \in {"messages"} THEN st[f]
        ELSE IF f \in {"raw_dataframe", "analysis_result", "sql_result", "figure",
                       "error"} THEN None
        ELSE IF f = "plan" THEN EmptyDict
        ELSE IF f = "retry_count" THEN 0
        ELSE EmptyStr]

\* the merge of a node's partial update into the state: a returned field
\* replaces the old value, messages (add_messages) are appended
Merge(st, update) ==
    [f \in StateFields |->
        IF f \notin DOMAIN update THEN st[f]
        ELSE IF f = "messages" THEN st[f] \o update[f]
        ELSE update[f]]

\* what a routing function gives when it raises instead of naming a node
RouterRaises == "\\TypeError"

\* _route_after_planner(state): the membership test in the set valid hashes
\* route, and raises TypeError when route is unhashable
RouteAfterPlanner(st) ==
    LET route == st.next_node
        valid == {<<"executor">>, <<"sql_node">>, <<"viz_node">>, <<"responder">>}
    IN  IF ~IsHashable(route) THEN RouterRaises
        ELSE IF route \notin valid THEN "executor" ELSE route[1]

\* a route out of the executor that always goes to the chart node
RouteAfterExecutorAlwaysViz(st) == "viz_node"

\* _route_after_executor(state)
RouteAfterExecutor(st) ==
    IF st.next_node = <<"viz_node">> THEN "viz_node" ELSE "responder"

\* the edges with viz_node wired back to executor
NextNodeVizBackToExecutor(n, st) ==
    CASE n = "planner" -> RouteAfterPlanner(st)
      [] n = "executor" -> RouteAfterExecutor(st)
      [] n = "sql_node" -> "responder"
      [] n = "viz_node" -> "executor"
      [] OTHER -> "end"

\* the edges with sql_node wired to viz_node
NextNodeSqlToViz(n, st) ==
    CASE n = "planner" -> RouteAfterPlanner(st)
      [] n = "executor" -> RouteAfterExecutor(st)
      [] n = "sql_node" -> "viz_node"
      [] n = "viz_node" -> "responder"
      [] OTHER -> "end"

\* the edges of build_graph: the node that follows n in state st
NextNode(n, st) ==
    CASE n = "planner" -> RouteAfterPlanner(st)
      [] n = "executor" -> RouteAfterExecutor(st)
      [] n = "sql_node" -> "responder"
      [] n = "viz_node" -> "responder"
      [] OTHER -> "end"

----------------------------------------------------------------------------
(* The node functions, as the partial update each returns *)

\* planner_node once the model has answered: the update, or the exception
\* plan.get raises when json.loads gave a value that is no dict
PlannerUpdate(st, response_text) ==
    LET parsed == PlannerParse(st.user_question, response_text)
    IN  IF parsed.kind # "dict"
        THEN Raised(Exc("AttributeError", <<"object has no attribute 'get'">>,
                        "planner_node"))
        ELSE Returned(("plan" :> parsed.val)
                   @@ ("next_node" :> PlannerNextNode(parsed.val))
                   @@ ("messages" :> << <<"Plan created:">> >>))

\* an early return that routes to the responder without setting error
NoDatasetUpdateNoError(n) ==
    ("error" :> None) @@ ("next_node" :> <<"responder">>)

\* the early return of analysis_executor_node and sql_executor_node /
\* viz_executor_node when there is no dataset
NoDatasetUpdate(n) ==
    ("error" :> (CASE n = "executor" ->
                        <<"No dataset loaded. Please upload a CSV file first.">>
                   [] n = "sql_node" -> <<"No dataset loaded.">>
                   [] OTHER -> <<"No data available for visualization.">>))
    @@ ("next_node" :> <<"responder">>)

\* analysis_executor_node choosing the next node from requires_viz whether or
\* not the analysis succeeded
AnalysisUpdateVizAfterFailure(st, result) ==
    LET next_node == IF Truthy(DictGet(st.plan, "requires_viz", None))
                     THEN <<"viz_node">> ELSE <<"responder">>
    IN  IF result.success
        THEN ("analysis_result" :> result.payload)
          @@ ("generated_code" :> result.code)
          @@ ("error" :> None)
          @@ ("next_node" :> next_node)
          @@ ("messages" :> << <<"Analysis complete after",
                                 ToString(result.attempts), "attempt(s).">> >>)
        ELSE ("error" :> result.error)
          @@ ("generated_code" :> result.code)
          @@ ("next_node" :> next_node)

\* analysis_executor_node clearing requires_viz in the plan once the analysis
\* has failed, instead of leaving the plan alone
AnalysisUpdateRewritesPlan(st, result) ==
    IF result.success
    THEN LET next_node == IF Truthy(DictGet(st.plan, "requires_viz", None))
                          THEN <<"viz_node">> ELSE <<"responder">>
         IN  ("analysis_result" :> result.payload)
          @@ ("generated_code" :> result.code)
          @@ ("error" :> None)
          @@ ("next_node" :> next_node)
          @@ ("messages" :> << <<"Analysis complete after",
                                 ToString(result.attempts), "attempt(s).">> >>)
    ELSE ("error" :> result.error)
      @@ ("generated_code" :> result.code)
      @@ ("plan" :> [k \in DOMAIN st.plan |->
                        IF k = "requires_viz" THEN JFalse ELSE st.plan[k]])
      @@ ("next_node" :> <<"responder">>)

\* analysis_executor_node after analyst.analyze returned result
AnalysisUpdate(st, result) ==
    IF result.success
    THEN LET plan == st.plan
             next_node == IF Truthy(DictGet(plan, "requires_viz", None))
                          THEN <<"viz_node">> ELSE <<"responder">>
         IN  ("analysis_result" :> result.payload)
          @@ ("generated_code" :> result.code)
          @@ ("error" :> None)
          @@ ("next_node" :> next_node)
          @@ ("messages" :> << <<"Analysis complete after",
                                 ToString(result.attempts), "attempt(s).">> >>)
    ELSE ("error" :> result.error)
      @@ ("generated_code" :> result.code)
      @@ ("next_node" :> <<"responder">>)

\* sql_executor_node storing the query in generated_code as well
SqlUpdateAsGeneratedCode(result) ==
    IF result.success
    THEN ("sql_query" :> result.code)
      @@ ("generated_code" :> result.code)
      @@ ("sql_result" :> result.payload)
      @@ ("error" :> None)
      @@ ("next_node" :> <<"responder">>)
      @@ ("messages" :> << <<"SQL generated:">> \o result.code >>)
    ELSE ("sql_query" :> result.code)
      @@ ("generated_code" :> result.code)
      @@ ("error" :> result.error)
      @@ ("next_node" :> <<"responder">>)

\* sql_executor_node after generator.generate returned result
SqlUpdate(result) ==
    IF result.success
    THEN ("sql_query" :> result.code)
      @@ ("sql_result" :> result.payload)
      @@ ("error" :> None)
      @@ ("next_node" :> <<"responder">>)
      @@ ("messages" :> << <<"SQL generated:">> \o result.code >>)
    ELSE ("sql_query" :> result.code)
      @@ ("error" :> result.error)
      @@ ("next_node" :> <<"responder">>)

\* viz_executor_node leaving a warning in error when the chart needed retries
VizUpdateWarnsOnRetries(result) ==
    IF result.success
    THEN ("figure" :> result.payload)
      @@ ("error" :> IF result.attempts > 1 THEN <<"Chart needed retries.">>
                     ELSE None)
      @@ ("next_node" :> <<"responder">>)
      @@ ("messages" :> << <<"Chart created after",
                             ToString(result.attempts), "attempt(s).">> >>)
    ELSE ("error" :> result.error)
      @@ ("next_node" :> <<"responder">>)

\* viz_executor_node reporting the retries its loop made in retry_count
VizUpdateCountsRetries(result) ==
    IF result.success
    THEN ("figure" :> result.payload)
      @@ ("error" :> None)
      @@ ("retry_count" :> result.attempts - 1)
      @@ ("next_node" :> <<"responder">>)
      @@ ("messages" :> << <<"Chart created after",
                             ToString(result.attempts), "attempt(s).">> >>)
    ELSE ("error" :> result.error)
      @@ ("retry_count" :> result.attempts - 1)
      @@ ("next_node" :> <<"responder">>)

\* viz_executor_node after generator.generate returned result
VizUpdate(result) ==
    IF result.success
    THEN ("figure" :> result.payload)
      @@ ("error" :> None)
      @@ ("next_node" :> <<"responder">>)
      @@ ("messages" :> << <<"Chart created after",
                             ToString(result.attempts), "attempt(s).">> >>)
    ELSE ("error" :> result.error)
      @@ ("next_node" :> <<"responder">>)

\* viz_question of viz_executor_node
VizQuestion(st) ==
    LET chart_type == DictGet(st.plan, "chart_type", EmptyStr)
    IN  IF Truthy(chart_type) THEN chart_type \o <<"chart:">> \o st.user_question
        ELSE st.user_question

\* context of responder_node
ResponderContext(st) ==
    LET context_parts ==
            << <<"User Question:">> \o st.user_question >>
            \o (IF Truthy(st.error) THEN << <<"Error:">> \o st.error >> ELSE <<>>)
            \o (IF st.analysis_result # None
                THEN << <<"Analysis Result:">> \o Tail(st.analysis_result) >>
                ELSE <<>>)
            \o (IF Truthy(st.sql_query)
                THEN << <<"SQL Query:">> \o st.sql_query >> ELSE <<>>)
            \o (IF st.sql_result # None
                THEN << <<"SQL Result:">> \o Tail(st.sql_result) >> ELSE <<>>)
            \o (IF st.figure # None
                THEN << <<"A chart has been generated and displayed.">> >>
                ELSE <<>>)
    IN  Join(context_parts, "\n\n")

\* the update responder_node returns
ResponderUpdate(final_answer) ==
    ("final_answer" :> final_answer)
    @@ ("next_node" :> <<"end">>)
    @@ ("messages" :> <<final_answer>>)

----------------------------------------------------------------------------
(* What the language model may answer *)

PlannerResponses ==
    {<<"<plan>", "{analysis}", "</plan>">>,
     <<"<thinking>", "</thinking>", "<plan>", "\n", "{multi,bar}", "\n", "</plan>">>,
     <<"<plan>", "{sql,viz}", "</plan>">>,
     <<"<plan>", "{viz,pie}", "</plan>">>,
     <<"<plan>", "{responder}", "</plan>">>,
     <<"<plan>", "{intent only}", "</plan>">>,
     <<"<plan>", "{routing:dashboard}", "</plan>">>,
     <<"<plan>", "{routing:[executor]}", "</plan>">>,
     <<"<plan>", "[1]", "</plan>">>,
     <<"<plan>", "not json", "</plan>">>,
     <<"<plan>", "{analysis}", "{sql,viz}", "</plan>">>,
     <<"<plan>", "</plan>">>,
     <<" ", "{viz,pie}", "\n">>,
     <<"I would route to", "{sql,viz}">>}

AnalystResponses ==
    {<<"<thinking>", "</thinking>", "<code>", "\n", "tmp=1",
       "result=lf.head(5).collect()", "\n", "</code>">>,
     <<"<code>", "tmp", "result=lf.collect()", "</code>">>,
     <<"<code>", "result=lf", "</code>">>,
     <<"<code>", "tmp=1", "</code>">>,
     <<"<code>", " ", "</code>", "<code>", "result=lf.collect()", "</code>">>}

VizResponses ==
    {<<"<code>", "\n", "tmp=1", "fig=px.bar(df)", "</code>">>,
     <<"<code>", "tmp", "fig=px.bar(df)", "</code>">>,
     <<"<code>", "fig=df", "</code>">>,
     <<"<code>", "fig=None", "</code>">>,
     <<"Here is your chart">>}

SqlResponses ==
    {<<"<sql>", "\n", "SELECT * FROM sc_data WHERE delayed", "</sql>">>,
     <<"<sql>", "<sql>", "SELECT * FROM sc_data WHERE delayed", "</sql>">>,
     <<"<sql>", "\n", "</sql>">>,
     <<"SELECT * FROM sc_data WHERE delayed">>}

ResponderResponses == {<<"Here is what the data shows.">>}

Outcomes(responses) == InvokeFailures \cup {InvokeReturns(t) : t \in responses}

----------------------------------------------------------------------------
(* Retry-loop control *)

\* range(1, self._max_retries + 2)
AttemptRange(max_retries) == 1..(max_retries + 1)

\* use_fallback with the comparison off by one
UseFallbackOffByOne(attempt, max_retries) == attempt >= max_retries

\* use_fallback true from the first retry on
UseFallbackOnEveryRetry(attempt, max_retries) == attempt > 1

\* use_fallback = attempt > self._max_retries
UseFallback(attempt, max_retries) == attempt > max_retries

\* a budget check that never fires, so that the for loop runs out
BudgetNeverExhausted(attempt, max_retries) == FALSE

\* the budget check with the comparison off by one
BudgetExhaustedOffByOne(attempt, max_retries) == attempt >= max_retries

\* if attempt > self._max_retries: return the failure
BudgetExhausted(attempt, max_retries) == attempt > max_retries

NoLoop ==
    [tool |-> "none", attempt |-> 0, error_history |-> <<>>, last_code |-> EmptyStr,
     question |-> EmptyStr, data |-> None]

NoResult ==
    [tool |-> "none", success |-> FALSE, payload |-> None, code |-> EmptyStr,
     error |-> None, attempts |-> 0]

\* locals of a loop whose attempt counter goes on from one invocation to the
\* next instead of starting at 1
StartLoopCountsOn(tool, question, data) ==
    [tool |-> tool, attempt |-> run, error_history |-> <<>>, last_code |-> EmptyStr,
     question |-> question, data |-> data]

\* locals of a loop whose error history is kept by the tool from one
\* invocation to the next: after an invocation that ended in failure the
\* list still holds an entry
StartLoopKeepsHistory(tool, question, data) ==
    [tool |-> tool, attempt |-> 1,
     error_history |-> IF previous.failed
                       THEN <<<<"Attempt", "4", "failed.">>>> ELSE <<>>,
     last_code |-> EmptyStr, question |-> question, data |-> data]

\* the locals of analyze / generate on entry to the for loop
StartLoop(tool, question, data) ==
    [tool |-> tool, attempt |-> 1, error_history |-> <<>>, last_code |-> EmptyStr,
     question |-> question, data |-> data]

\* the success dict with attempts counted from zero
LoopSuccessZeroBased(tool, payload, code, attempt) ==
    [tool |-> tool, success |-> TRUE, payload |-> payload, code |-> code,
     error |-> None, attempts |-> attempt - 1]

\* the success dict of a retry loop
LoopSuccess(tool, payload, code, attempt) ==
    [tool |-> tool, success |-> TRUE, payload |-> payload, code |-> code,
     error |-> None, attempts |-> attempt]

\* the failure dict returned from the except block when the budget is spent
LoopFailure(tool, last_code, exc, attempt) ==
    [tool |-> tool, success |-> FALSE, payload |-> None, code |-> last_code,
     error |-> exc.msg, attempts |-> attempt]

\* the dict returned after the for loop ("Unexpected exit")
LoopUnexpectedExit(tool, last_code, max_retries) ==
    [tool |-> tool, success |-> FALSE, payload |-> None, code |-> last_code,
     error |-> IF tool = "viz" THEN <<"Unexpected exit.">>
               ELSE <<"Unexpected exit from retry loop.">>,
     attempts |-> max_retries + 1]

\* an iteration that takes last_code from the attempt just made, so that an
\* attempt whose model call failed resets it to the empty string
LoopIterationCodeOfLastAttempt(lp, t, error_msg, max_retries) ==
    LET last_code == t.code
        error_history == Append(lp.error_history, error_msg)
    IN  IF t.res.ok
        THEN [done |-> TRUE,
              result |-> LoopSuccess(lp.tool, t.res.val, t.code, lp.attempt),
              next |-> NoLoop]
        ELSE IF BudgetExhausted(lp.attempt, max_retries)
        THEN [done |-> TRUE,
              result |-> LoopFailure(lp.tool, last_code, t.res.exc, lp.attempt),
              next |-> NoLoop]
        ELSE IF lp.attempt + 1 \in AttemptRange(max_retries)
        THEN [done |-> FALSE, result |-> NoResult,
              next |-> [lp EXCEPT !.attempt = lp.attempt + 1,
                                  !.error_history = error_history,
                                  !.last_code = last_code]]
        ELSE [done |-> TRUE,
              result |-> LoopUnexpectedExit(lp.tool, last_code, max_retries),
              next |-> NoLoop]

\* one iteration of the for loop of a retry loop, from the locals lp and the
\* outcome t of its try block: the dict returned (done) or the locals of the
\* next iteration
LoopIteration(lp, t, error_msg, max_retries) ==
    LET last_code == IF t.assigned THEN t.code ELSE lp.last_code
        error_history == Append(lp.error_history, error_msg)
    IN  IF t.res.ok
        THEN [done |-> TRUE,
              result |-> LoopSuccess(lp.tool, t.res.val, t.code, lp.attempt),
              next |-> NoLoop]
        ELSE IF BudgetExhausted(lp.attempt, max_retries)
        THEN [done |-> TRUE,
              result |-> LoopFailure(lp.tool, last_code, t.res.exc, lp.attempt),
              next |-> NoLoop]
        ELSE IF lp.attempt + 1 \in AttemptRange(max_retries)
        THEN [done |-> FALSE, result |-> NoResult,
              next |-> [lp EXCEPT !.attempt = lp.attempt + 1,
                                  !.error_history = error_history,
                                  !.last_code = last_code]]
        ELSE [done |-> TRUE,
              result |-> LoopUnexpectedExit(lp.tool, last_code, max_retries),
              next |-> NoLoop]

\* the record kept of one attempt: the model used, the prompt sent, the
\* error history the prompt was built from, and what the try block did
CallRecord(lp, llm, prompt, t) ==
    [attempt |-> lp.attempt, llm |-> llm, prompt |-> prompt,
     history |-> lp.error_history, assigned |-> t.assigned, code |-> t.code,
     executed |-> t.executed, ok |-> t.res.ok, exc |-> t.res.exc]

----------------------------------------------------------------------------
(* The state machine *)

\* the configurations get_settings() may hold: Settings.llm with its provider,
\* the providers that have a model pair, and llm.max_retries
SettingsChoices ==
    {[provider |-> "google", models |-> {"google", "groq"}, max_retries |-> 3],
     [provider |-> "groq", models |-> {"google", "groq"}, max_retries |-> 1],
     [provider |-> "groq", models |-> {"google"}, max_retries |-> 3],
     [provider |-> "openai", models |-> Providers, max_retries |-> 3]}

\* nothing kept of an earlier call
NoPrevious ==
    [tool |-> "none", question |-> EmptyStr, response |-> EmptyStr,
     result |-> NoResult, failed |-> FALSE]

\* abi_graph.invoke on an initial state, as in the usage of build_graph: the
\* caller holds the dataset handle it passes as raw_dataframe, which the
\* nodes allow to be None
Init ==
    /\ settings \in SettingsChoices
    /\ session_lf \in Datasets
    /\ \E q \in Questions : state = InitialState(q, session_lf)
    /\ node = "planner"
    /\ status = "running"
    /\ trace = <<>>
    /\ loop = NoLoop
    /\ loopCalls = <<>>
    /\ toolResult = NoResult
    /\ llmCalls = <<>>
    /\ respContext = EmptyStr
    /\ lastResponse = NoOutcome
    /\ run = 1
    /\ previous = NoPrevious

TraceEntry(n, wrote, done) == [node |-> n, wrote |-> wrote, done |-> done]

\* node n raises: the exception leaves graph.invoke and the run is over
\* without a final state
Crash(n, newTrace, calls) ==
    /\ status' = "crashed"
    /\ trace' = newTrace
    /\ llmCalls' = llmCalls \o calls
    /\ loop' = NoLoop
    /\ UNCHANGED <<settings, state, node, run>>

\* node n returns update: the graph merges it and follows the edge out of n;
\* a routing function that raises ends the run like a node that raises
Finish(n, update, newTrace, calls) ==
    LET merged == Merge(state, update)
        next == NextNode(n, merged)
    IN  /\ state' = merged
        /\ node' = IF next = RouterRaises THEN n ELSE next
        /\ status' = IF next = "end" THEN "ended"
                      ELSE IF next = RouterRaises THEN "crashed" ELSE "running"
        /\ trace' = newTrace
        /\ llmCalls' = llmCalls \o calls
        /\ loop' = NoLoop
        /\ UNCHANGED <<settings, run>>

Started(n) == Append(trace, TraceEntry(n, {}, FALSE))
Completed(n, update) == Append(trace, TraceEntry(n, DOMAIN update, TRUE))
CompletedLast(update) ==
    [trace EXCEPT ![Len(trace)] = TraceEntry(@.node, DOMAIN update, TRUE)]

\* planner_node
Planner ==
    /\ status = "running" /\ node = "planner"
    /\ LET llm == BuildLlm(settings, FALSE)
       IN  IF ~llm.ok
           THEN /\ Crash("planner", Started("planner"), <<>>)
                /\ UNCHANGED lastResponse
           ELSE \E out \in Outcomes(PlannerResponses) :
                  LET call == <<[by |-> "planner", llm |-> llm.val]>>
                      r == PlannerUpdate(state, out.text)
                  IN  /\ lastResponse' = out
                      /\ IF out.raises \/ ~r.ok
                         THEN Crash("planner", Started("planner"), call)
                         ELSE Finish("planner", r.val, Completed("planner", r.val),
                                     call)
    /\ UNCHANGED <<loopCalls, toolResult, respContext, previous, session_lf>>

\* analysis_executor_node up to the for loop of PolarsAnalyst.analyze
ExecutorEnter ==
    /\ status = "running" /\ node = "executor" /\ loop = NoLoop
    /\ LET lf == state.raw_dataframe
       IN  IF lf = None
           THEN /\ Finish("executor", NoDatasetUpdate("executor"),
                          Completed("executor", NoDatasetUpdate("executor")), <<>>)
                /\ UNCHANGED <<loopCalls, toolResult>>
           ELSE /\ loop' = StartLoop("analyst", state.user_question, lf)
                /\ loopCalls' = <<>>
                /\ toolResult' = NoResult
                /\ trace' = Started("executor")
                /\ UNCHANGED <<settings, state, node, status, llmCalls, run>>
    /\ lastResponse' = NoOutcome
    /\ UNCHANGED <<respContext, previous, session_lf>>

\* one iteration of the for loop of PolarsAnalyst.analyze; when analyze
\* returns, the rest of analysis_executor_node and the edge out of executor
AnalyzeAttempt ==
    /\ status = "running" /\ node = "executor" /\ loop.tool = "analyst"
    /\ LET llm == BuildLlm(settings, UseFallback(loop.attempt, PolarsMaxRetries))
       IN  IF ~llm.ok
           THEN /\ Crash("executor", trace, <<>>)
                /\ UNCHANGED <<loopCalls, toolResult, lastResponse>>
           ELSE \E out \in Outcomes(AnalystResponses) :
                  LET prompt == AnalystBuildPrompt(loop.question,
                                    SchemaInfo(loop.data), loop.error_history)
                      t == AnalystTry(loop.data, out)
                      it == LoopIteration(loop, t,
                                AnalystErrorMsg(loop.attempt, t.res.exc),
                                PolarsMaxRetries)
                      call == <<[by |-> "analyst", llm |-> llm.val]>>
                  IN  /\ lastResponse' = out
                      /\ loopCalls' = Append(loopCalls,
                                             CallRecord(loop, llm.val, prompt, t))
                      /\ IF it.done
                         THEN /\ toolResult' = it.result
                              /\ Finish("executor", AnalysisUpdate(state, it.result),
                                   CompletedLast(AnalysisUpdate(state, it.result)), call)
                         ELSE /\ loop' = it.next
                              /\ llmCalls' = llmCalls \o call
                              /\ UNCHANGED <<settings, state, node, status, trace,
                                             toolResult, run>>
    /\ UNCHANGED <<respContext, previous, session_lf>>

\* sql_executor_node, with SQLGenerator.generate
SqlNode ==
    /\ status = "running" /\ node = "sql_node"
    /\ LET lf == state.raw_dataframe
       IN  IF lf = None
           THEN /\ Finish("sql_node", NoDatasetUpdate("sql_node"),
                          Completed("sql_node", NoDatasetUpdate("sql_node")), <<>>)
                /\ lastResponse' = NoOutcome
                /\ UNCHANGED <<loopCalls, toolResult>>
           ELSE LET llm == BuildLlm(settings, FALSE)
                IN  IF ~llm.ok
                    THEN /\ Crash("sql_node", Started("sql_node"), <<>>)
                         /\ UNCHANGED <<loopCalls, toolResult, lastResponse>>
                    ELSE \E out \in Outcomes(SqlResponses) :
                           LET result == SqlGenerate(lf, out)
                               t == SqlTry(lf, out)
                           IN  /\ lastResponse' = out
                               /\ toolResult' = result
                               /\ loopCalls' =
                                    <<[attempt |-> 1, llm |-> llm.val,
                                       prompt |-> SchemaInfo(lf) \o <<"Question:">>
                                                    \o state.user_question,
                                       history |-> <<>>, assigned |-> ~out.raises,
                                       code |-> t.sql_query, executed |-> t.executed,
                                       ok |-> t.res.ok, exc |-> t.res.exc]>>
                               /\ Finish("sql_node", SqlUpdate(result),
                                         Completed("sql_node", SqlUpdate(result)),
                                         <<[by |-> "sql", llm |-> llm.val]>>)
    /\ UNCHANGED <<respContext, previous, session_lf>>

\* viz_executor_node up to the for loop of VizGenerator.generate
VizEnter ==
    /\ status = "running" /\ node = "viz_node" /\ loop = NoLoop
    /\ LET df == state.analysis_result
           lf == state.raw_dataframe
       IN  IF df = None /\ lf = None
           THEN /\ Finish("viz_node", NoDatasetUpdate("viz_node"),
                          Completed("viz_node", NoDatasetUpdate("viz_node")), <<>>)
                /\ UNCHANGED <<loopCalls, toolResult>>
           ELSE LET table == IF df = None THEN Collect(lf) ELSE Returned(df)
                IN  IF ~table.ok
                    THEN /\ Crash("viz_node", Started("viz_node"), <<>>)
                         /\ UNCHANGED <<loopCalls, toolResult>>
                    ELSE /\ loop' = StartLoop("viz", VizQuestion(state), table.val)
                         /\ loopCalls' = <<>>
                         /\ toolResult' = NoResult
                         /\ trace' = Started("viz_node")
                         /\ UNCHANGED <<settings, state, node, status, llmCalls, run>>
    /\ lastResponse' = NoOutcome
    /\ UNCHANGED <<respContext, previous, session_lf>>

\* one iteration of the for loop of VizGenerator.generate; when generate
\* returns, the rest of viz_executor_node and the edge out of viz_node
VizAttempt ==
    /\ status = "running" /\ node = "viz_node" /\ loop.tool = "viz"
    /\ LET llm == BuildLlm(settings, UseFallback(loop.attempt, VizMaxRetries))
       IN  IF ~llm.ok
           THEN /\ Crash("viz_node", trace, <<>>)
                /\ UNCHANGED <<loopCalls, toolResult, lastResponse>>
           ELSE \E out \in Outcomes(VizResponses) :
                  LET prompt == VizBuildPrompt(loop.question, loop.data,
                                               loop.error_history)
                      t == VizTry(loop.data, out)
                      it == LoopIteration(loop, t,
                                VizErrorMsg(loop.attempt, t.res.exc), VizMaxRetries)
                      call == <<[by |-> "viz", llm |-> llm.val]>>
                  IN  /\ lastResponse' = out
                      /\ loopCalls' = Append(loopCalls,
                                             CallRecord(loop, llm.val, prompt, t))
                      /\ IF it.done
                         THEN /\ toolResult' = it.result
                              /\ Finish("viz_node", VizUpdate(it.result),
                                        CompletedLast(VizUpdate(it.result)), call)
                         ELSE /\ loop' = it.next
                              /\ llmCalls' = llmCalls \o call
                              /\ UNCHANGED <<settings, state, node, status, trace,
                                             toolResult, run>>
    /\ UNCHANGED <<respContext, previous, session_lf>>

\* responder_node
Responder ==
    /\ status = "running" /\ node = "responder"
    /\ LET llm == BuildLlm(settings, FALSE)
       IN  IF ~llm.ok
           THEN /\ Crash("responder", Started("responder"), <<>>)
                /\ UNCHANGED <<respContext, lastResponse>>
           ELSE \E out \in Outcomes(ResponderResponses) :
                  LET call == <<[by |-> "responder", llm |-> llm.val]>>
                      update == ResponderUpdate(out.text)
                  IN  /\ lastResponse' = out
                      /\ respContext' = ResponderContext(state)
                      /\ IF out.raises
                         THEN Crash("responder", Started("responder"), call)
                         ELSE Finish("responder", update,
                                     Completed("responder", update), call)
    /\ loopCalls' = <<>>
    /\ toolResult' = NoResult
    /\ UNCHANGED <<previous, session_lf>>

\* the files a user may upload: pl.scan_csv gives a LazyFrame for each
Uploads == {LfGood, LfBroken}

\* app.py, a script run with a file in the uploader: the session's handle is
\* replaced by a scan of the uploaded file (before the sidebar shows the
\* provider's model)
Upload ==
    /\ status \in {"ended", "crashed"}
    /\ run < MaxRuns
    /\ \E uploaded \in Uploads :
          /\ session_lf # uploaded
          /\ session_lf' = uploaded
    /\ UNCHANGED <<settings, state, node, status, trace, loop, loopCalls,
                   toolResult, llmCalls, respContext, lastResponse, run, previous>>

\* app.py, a script run with a question: the script raises in the sidebar,
\* before it reads the question, when the provider's model cannot be shown;
\* nothing is invoked while the session has no dataset (st.warning,
\* st.stop); otherwise a fresh run of the graph starts on the session's
\* current handle
NewQuestion ==
    /\ status \in {"ended", "crashed"}
    /\ run < MaxRuns
    /\ ActivePrimaryModel(settings).ok
    /\ session_lf # None
    /\ \E q \in Questions : state' = InitialState(q, session_lf)
    /\ node' = "planner"
    /\ status' = "running"
    /\ trace' = <<>>
    /\ loop' = NoLoop
    /\ loopCalls' = <<>>
    /\ toolResult' = NoResult
    /\ llmCalls' = <<>>
    /\ respContext' = EmptyStr
    /\ lastResponse' = NoOutcome
    /\ run' = run + 1
    /\ UNCHANGED <<settings, previous, session_lf>>

Next ==
    \/ Planner
    \/ ExecutorEnter
    \/ AnalyzeAttempt
    \/ SqlNode
    \/ VizEnter
    \/ VizAttempt
    \/ Responder
    \/ Upload
    \/ NewQuestion

Spec == Init /\ [][Next]_vars

----------------------------------------------------------------------------
(* The executor nodes called on their own *)

\* analysis_executor_node / viz_executor_node are plain functions of the
\* state, and PolarsAnalyst / VizGenerator are built afresh inside them: a
\* caller may invoke one directly on an initial state, whatever the
\* configuration, and invoke it again once it has returned or raised
ToolInit ==
    /\ settings \in SettingsChoices
    /\ session_lf \in Datasets
    /\ \E q \in Questions : state = InitialState(q, session_lf)
    /\ node \in {"executor", "viz_node"}
    /\ status = "running"
    /\ trace = <<>>
    /\ loop = NoLoop
    /\ loopCalls = <<>>
    /\ toolResult = NoResult
    /\ llmCalls = <<>>
    /\ respContext = EmptyStr
    /\ lastResponse = NoOutcome
    /\ run = 1
    /\ previous = NoPrevious

\* the node called has returned its update (the graph would go on to the
\* responder) or has raised
CallOver == status = "crashed" \/ (status = "running" /\ node = "responder")

\* the caller keeps the question, the response and the result dict of a call
\* whose loop succeeded at its first attempt, notes whether the call just
\* over ended in the terminal failure of its loop, then calls a node again
\* with a question on the same dataset
CallAgain ==
    /\ CallOver
    /\ run < MaxCalls
    /\ LET failed == toolResult.tool \in {"analyst", "viz"} /\ ~toolResult.success
       IN  previous' = IF toolResult.success /\ toolResult.attempts = 1
                       THEN [tool |-> toolResult.tool,
                             question |-> state.user_question,
                             response |-> lastResponse.text,
                             result |-> toolResult, failed |-> failed]
                       ELSE [previous EXCEPT !.failed = failed]
    /\ \E q \in Questions : state' = InitialState(q, state.raw_dataframe)
    /\ node' \in {"executor", "viz_node"}
    /\ status' = "running"
    /\ trace' = <<>>
    /\ loop' = NoLoop
    /\ loopCalls' = <<>>
    /\ toolResult' = NoResult
    /\ llmCalls' = <<>>
    /\ respContext' = EmptyStr
    /\ lastResponse' = NoOutcome
    /\ run' = run + 1
    /\ UNCHANGED <<settings, session_lf>>

ToolNext ==
    \/ ExecutorEnter
    \/ AnalyzeAttempt
    \/ VizEnter
    \/ VizAttempt
    \/ CallAgain

ToolSpec == ToolInit /\ [][ToolNext]_vars

----------------------------------------------------------------------------
(* Vocabulary of the properties *)

RetryTools == {"analyst", "viz"}

\* the retry loop whose attempts loopCalls holds: the one in progress, or
\* the one that returned last ("none" when neither)
LoopTool == IF loop.tool # "none" THEN loop.tool ELSE toolResult.tool

InRetryLoop == LoopTool \in RetryTools

\* the retry budget R of a retry loop
BudgetOf(tool) == IF tool = "viz" THEN VizMaxRetries ELSE PolarsMaxRetries

\* the history entry a retry loop captures for the failure exc of an attempt
ErrorMsgOf(tool, attempt, exc) ==
    IF tool = "viz" THEN VizErrorMsg(attempt, exc) ELSE AnalystErrorMsg(attempt, exc)

\* the retry loop has returned its result dict
LoopReturned == toolResult.tool \in RetryTools

\* the node names run so far
TraceNodes == [i \in 1..Len(trace) |-> trace[i].node]

----------------------------------------------------------------------------
(* C1..C10 *)

\* C1: in one invocation of a retry loop with budget R the model is invoked
\* at most R+1 times; an invocation whose attempts all fail invokes it exactly
\* R+1 times, attempts 1..R on the primary model and attempt R+1 on the
\* fallback model.
C1_AttemptsBoundedPrimaryThenFallback ==
    InRetryLoop =>
        LET R == BudgetOf(LoopTool)
        IN  /\ Len(loopCalls) <= R + 1
            /\ \A i \in 1..Len(loopCalls) :
                  loopCalls[i].llm[2] = IF i <= R THEN "primary" ELSE "fallback"
            /\ (LoopReturned /\ \A i \in 1..Len(loopCalls) : ~loopCalls[i].ok)
                  => Len(loopCalls) = R + 1

\* a chart loop has returned after failing every attempt, the last one made
\* on the fallback model
C1_Witness ==
    /\ toolResult.tool = "viz" /\ ~toolResult.success
    /\ Len(loopCalls) = VizMaxRetries + 1
    /\ loopCalls[Len(loopCalls)].llm[2] = "fallback"

\* C2: when attempt k of a retry loop succeeds the loop returns at once with
\* success=true, error=null, attempts=k and the code of attempt k; no model
\* call follows attempt k in that invocation (a successful attempt is always
\* the last attempt made, and the loop has returned).
C2_SuccessReturnsAtOnce ==
    InRetryLoop =>
        \A k \in 1..Len(loopCalls) :
            loopCalls[k].ok =>
                /\ k = Len(loopCalls)
                /\ loop = NoLoop
                /\ toolResult.success
                /\ toolResult.error = None
                /\ toolResult.attempts = k
                /\ loopCalls[k].attempt = k
                /\ toolResult.code = loopCalls[k].code
                /\ toolResult.code = ExtractTag(lastResponse.text, "code")
                /\ toolResult.payload # None

\* an analysis loop has returned success at its third attempt
C2_Witness ==
    /\ toolResult.tool = "analyst" /\ toolResult.success
    /\ toolResult.attempts = 3
    /\ ~loopCalls[1].ok /\ ~loopCalls[2].ok /\ loopCalls[3].ok

\* C3: when the prompt of attempt n is built the error history has exactly
\* n-1 entries, entry i being the failure captured at attempt i, in attempt
\* order, and the prompt contains every one of them; attempts are made one
\* after the other, attempt n+1 only once attempt n has failed.
C3_HistoryMatchesAttempts ==
    InRetryLoop =>
        /\ \A n \in 1..Len(loopCalls) :
              LET c == loopCalls[n]
              IN  /\ c.attempt = n
                  /\ Len(c.history) = n - 1
                  /\ \A i \in 1..(n - 1) :
                        /\ ~loopCalls[i].ok
                        /\ c.history[i] = ErrorMsgOf(LoopTool, i, loopCalls[i].exc)
                        /\ Contains(c.prompt, c.history[i])
        /\ loop.tool # "none" =>
              /\ loop.attempt = Len(loopCalls) + 1
              /\ Len(loop.error_history) = Len(loopCalls)

\* the prompt of the fourth attempt of an analysis loop has been built from
\* three failures of different kinds
C3_Witness ==
    /\ LoopTool = "analyst" /\ Len(loopCalls) = 4
    /\ Len(loopCalls[4].history) = 3
    /\ loopCalls[1].exc.site = "invoke"
    /\ loopCalls[2].exc.site = "_run_code"
    /\ loopCalls[3].exc.site = "<string>"

\* C4: when attempt R+1 fails, whatever the failure, the loop returns
\* success=false, payload=null, attempts=R+1 and the message of that failure
\* as error; when attempt k <= R fails the loop does not return: it appends
\* one history entry and goes on to attempt k+1.
C4_FailureReturnsOnlyAfterBudget ==
    InRetryLoop =>
        LET R == BudgetOf(LoopTool)
        IN  \A n \in 1..Len(loopCalls) :
                LET c == loopCalls[n]
                    grown == Append(c.history, ErrorMsgOf(LoopTool, n, c.exc))
                IN  ~c.ok =>
                       IF n = R + 1
                       THEN /\ loop = NoLoop
                            /\ toolResult.tool = LoopTool
                            /\ ~toolResult.success
                            /\ toolResult.payload = None
                            /\ toolResult.attempts = R + 1
                            /\ toolResult.error = c.exc.msg
                       ELSE IF n < Len(loopCalls)
                       THEN loopCalls[n + 1].history = grown
                       ELSE /\ toolResult = NoResult
                            /\ loop.tool = LoopTool
                            /\ loop.attempt = n + 1
                            /\ loop.error_history = grown

\* an analysis loop has returned the failure of its last attempt, a
\* validation failure, after a first attempt whose model call failed
C4_Witness ==
    /\ toolResult.tool = "analyst" /\ ~toolResult.success
    /\ toolResult.attempts = PolarsMaxRetries + 1
    /\ loopCalls[1].exc.site = "invoke"
    /\ loopCalls[PolarsMaxRetries + 1].exc.site = "_run_code"
    /\ toolResult.error = loopCalls[PolarsMaxRetries + 1].exc.msg

\* the analysis attempt c ran its code to the end without an exception and
\* left result unbound, null or bound to something that is no DataFrame
RanWithoutTable(c) ==
    /\ c.executed
    /\ LET r == Exec(c.code, AnalystNamespace(state.raw_dataframe))
       IN  r.ok /\ ~IsDataFrame(NsGet(r.val, "result"))

\* the value attempt c left in result (None when unbound)
ResultLeft(c) ==
    NsGet(Exec(c.code, AnalystNamespace(state.raw_dataframe)).val, "result")

\* the failure of attempt c was raised by the validation of _run_code, not
\* by the generated code
IsValidationFailure(c) ==
    ~c.ok /\ c.exc.type = "ValueError" /\ c.exc.site = "_run_code"

\* the message names the type
NamesType(msg, type) == \E i \in 1..Len(msg) : msg[i] = type

\* the failure of attempt n is entry n of the error history handed on
RecordedInHistory(n) ==
    LET entry == AnalystErrorMsg(n, loopCalls[n].exc)
    IN  /\ n < Len(loopCalls) => loopCalls[n + 1].history[n] = entry
        /\ (n = Len(loopCalls) /\ loop.tool = "analyst")
              => loop.error_history[n] = entry

\* C5 as stated: an analysis attempt whose code runs without raising but
\* leaves result unbound or bound to something that is no materialized table
\* fails, and is recorded as a validation failure that names the observed
\* type.
C5_WrongTypeNamesObservedType ==
    LoopTool = "analyst" =>
        \A n \in 1..Len(loopCalls) :
            RanWithoutTable(loopCalls[n]) =>
                /\ IsValidationFailure(loopCalls[n])
                /\ RecordedInHistory(n)
                /\ NamesType(loopCalls[n].exc.msg, TypeName(ResultLeft(loopCalls[n])))

\* C5 amended: such an attempt fails and is never returned as success; it is
\* recorded as a validation failure raised by _run_code, which names the
\* observed type when result is bound to a non-null value that is no
\* DataFrame, and says that result was not defined when result is unbound or
\* None.
C5_WrongTypeIsValidationFailure ==
    LoopTool = "analyst" =>
        /\ \A n \in 1..Len(loopCalls) :
              RanWithoutTable(loopCalls[n]) =>
                  /\ IsValidationFailure(loopCalls[n])
                  /\ RecordedInHistory(n)
                  /\ IF ResultLeft(loopCalls[n]) = None
                     THEN loopCalls[n].exc.msg =
                              <<"Code did not define a result variable.">>
                     ELSE NamesType(loopCalls[n].exc.msg,
                                    TypeName(ResultLeft(loopCalls[n])))
        /\ toolResult.success => IsDataFrame(toolResult.payload)

\* an analysis loop has seen both kinds: an attempt that bound result to the
\* lazy handle and an attempt that left result unbound
C5_Witness ==
    /\ LoopTool = "analyst" /\ Len(loopCalls) >= 2
    /\ RanWithoutTable(loopCalls[1]) /\ ResultLeft(loopCalls[1]) = LfGood
    /\ NamesType(loopCalls[1].exc.msg, "LazyFrame")
    /\ RanWithoutTable(loopCalls[2]) /\ ResultLeft(loopCalls[2]) = None

\* C6 as stated: the chart loop returns success only when the generated code
\* bound fig to a chart object.
C6_ChartSuccessIsAChart ==
    (toolResult.tool = "viz" /\ toolResult.success) => IsFigure(toolResult.payload)

\* C7: an invocation of SQLGenerator.generate makes exactly one model call,
\* runs the query at most once and only a query it extracted, never retries,
\* and on every failure returns success=false with a null result and the
\* query text extracted so far (empty if none was).
C7_SqlSingleShot ==
    toolResult.tool = "sql" =>
        LET c == loopCalls[1]
            extracted == IF lastResponse.raises THEN EmptyStr
                         ELSE ExtractTag(lastResponse.text, "sql")
        IN  /\ Len(loopCalls) = 1
            /\ Cardinality({i \in 1..Len(llmCalls) : llmCalls[i].by = "sql"}) = 1
            /\ toolResult.attempts = 1
            /\ toolResult.code = extracted
            /\ c.executed => (extracted # EmptyStr /\ ~lastResponse.raises)
            /\ toolResult.success = c.ok
            /\ ~c.ok => /\ toolResult.payload = None
                        /\ toolResult.error = c.exc.msg
                        /\ state.sql_query = extracted
                        /\ state.sql_result = None

\* the SQL generator has failed to materialize the dataset after extracting
\* a query, and returned the query with the failure
C7_Witness ==
    /\ toolResult.tool = "sql" /\ ~toolResult.success
    /\ loopCalls[1].exc.site = "collect"
    /\ toolResult.code = <<"SELECT * FROM sc_data WHERE delayed">>

\* the planner has just returned, no other node has run yet
PlannerJustReturned ==
    Len(trace) = 1 /\ trace[1].node = "planner" /\ trace[1].done

\* the planner's response holds no parseable JSON value
PlanUnparseable == JsonLoads(PlannerRawJson(lastResponse.text)).kind = "error"

\* C8: whenever the planner's response cannot be parsed as JSON the plan
\* written to state is the fixed default (intent=analysis, routing=executor,
\* requires_sql=false, requires_viz=false, chart_type=null) and the next node
\* is executor, for every question.
C8_UnparseablePlanIsDefault ==
    (PlannerJustReturned /\ PlanUnparseable) =>
        /\ DOMAIN state.plan = PlanKeys
        /\ DictGet(state.plan, "intent", None) = <<"analysis">>
        /\ DictGet(state.plan, "routing", None) = <<"executor">>
        /\ DictGet(state.plan, "requires_sql", None) = JFalse
        /\ DictGet(state.plan, "requires_viz", None) = JFalse
        /\ DictGet(state.plan, "chart_type", EmptyStr) = None
        /\ state.next_node = <<"executor">>
        /\ node = "executor"

\* the planner has returned the default plan for a response without a plan
\* section whose text is no JSON
C8_Witness ==
    /\ PlannerJustReturned /\ PlanUnparseable
    /\ TagMatch(lastResponse.text, "plan")[1] = 0
    /\ state.plan = DefaultPlan(state.user_question)

\* C9 as stated: no failure of a model call crashes the pipeline (every node
\* returns an update and the responder runs).
C9_NoModelFailureCrashesPipeline ==
    ~(status = "crashed" /\ lastResponse.raises)

\* a step of the run in progress
RunStep ==
    \/ Planner
    \/ ExecutorEnter
    \/ AnalyzeAttempt
    \/ SqlNode
    \/ VizEnter
    \/ VizAttempt
    \/ Responder

\* C10: a run executes at most 4 nodes, none of them twice, planner first
\* and responder last; a run in which no node raises is never stuck before
\* end (each retry loop makes at most R+1 attempts), and ends after responder.
C10_AtMostFourNodesNoRevisit ==
    /\ Len(trace) <= 4
    /\ \A i, j \in 1..Len(trace) : trace[i].node = trace[j].node => i = j
    /\ trace # <<>> => trace[1].node = "planner"
    /\ \A i \in 1..(Len(trace) - 1) : trace[i].node # "responder" /\ trace[i].done
    /\ loop.tool # "none" => loop.attempt \in AttemptRange(BudgetOf(loop.tool))
    /\ status = "running" => ENABLED RunStep
    /\ status = "ended" <=>
          (trace # <<>> /\ trace[Len(trace)].node = "responder"
                        /\ trace[Len(trace)].done)
    /\ status = "ended" => node = "end"

\* a run has ended after four nodes
C10_Witness ==
    /\ status = "ended" /\ Len(trace) = 4
    /\ TraceNodes = <<"planner", "executor", "viz_node", "responder">>

----------------------------------------------------------------------------
(* C11..C20 *)

\* the routing value of the plan in state (None when the key is missing)
PlanRouting == DictGet(state.plan, "routing", None)

ValidRoutes == {<<"executor">>, <<"sql_node">>, <<"viz_node">>, <<"responder">>}

\* C11 as stated: the node executed right after the planner is the plan's
\* routing value when that value is one of executor, sql_node, viz_node,
\* responder, and executor for every other value.
C11_RoutingValueOrExecutor ==
    PlannerJustReturned =>
        /\ status = "running"
        /\ node = IF PlanRouting \in ValidRoutes THEN PlanRouting[1] ELSE "executor"

\* the node that returned last
LastNode == IF trace = <<>> THEN "none" ELSE trace[Len(trace)].node

\* node n has just returned its update and the graph has followed its edge
JustRan(n) == trace # <<>> /\ LastNode = n /\ trace[Len(trace)].done

\* the requires_viz value of the plan in state (None when the key is missing)
PlanRequiresViz == DictGet(state.plan, "requires_viz", None)

\* the analysis loop ran in the executor node and returned success
AnalysisSucceeded == toolResult.tool = "analyst" /\ toolResult.success

\* C12 as stated: whenever the executor node has run, the next node is
\* viz_node if plan.requires_viz is true and responder otherwise.
C12_ExecutorFollowsRequiresViz ==
    JustRan("executor") =>
        node = IF PlanRequiresViz = JTrue THEN "viz_node" ELSE "responder"

\* C12 amended: whenever the executor node has run, the next node is viz_node
\* if the analysis succeeded and plan.requires_viz is truthy, and responder
\* otherwise (the analysis failed, there was no dataset, or requires_viz is
\* falsy or missing).
C12_ExecutorFollowsRequiresVizOnSuccess ==
    JustRan("executor") =>
        /\ status = "running"
        /\ node = IF AnalysisSucceeded /\ Truthy(PlanRequiresViz)
                  THEN "viz_node" ELSE "responder"

\* the executor has returned after an analysis that spent its budget, under
\* a plan that asks for a chart, and the responder is next
C12_Witness ==
    /\ JustRan("executor") /\ PlanRequiresViz = JTrue
    /\ toolResult.tool = "analyst" /\ ~toolResult.success
    /\ node = "responder"

\* the nodes that work on the dataset
DataNodes == {"executor", "sql_node", "viz_node"}

\* the run was started without a dataset
NoDataset == state.raw_dataframe = None

\* the callers of the model so far in the run
Callers == {llmCalls[i].by : i \in 1..Len(llmCalls)}

\* C13: when the dataset handle is absent, for every routing, each of
\* executor, sql_node and viz_node that runs returns an update with a
\* non-null error and next_node=responder without making any model call and
\* without starting a retry loop, and the responder then runs with that error
\* in its model context.
C13_NoDatasetGoesToResponder ==
    NoDataset =>
        /\ loop = NoLoop /\ loopCalls = <<>> /\ toolResult = NoResult
        /\ Callers \subseteq {"planner", "responder"}
        /\ \A n \in DataNodes :
              JustRan(n) =>
                  /\ trace[Len(trace)].wrote = {"error", "next_node"}
                  /\ state.error # None
                  /\ state.next_node = <<"responder">>
                  /\ status = "running" /\ node = "responder"
                  /\ ENABLED Responder
        /\ (LastNode = "responder" /\ Len(trace) >= 2
               /\ trace[Len(trace) - 1].node \in DataNodes) =>
                  /\ state.error # None
                  /\ Contains(respContext, <<"Error:">> \o state.error)

\* without a dataset, the responder has answered after the chart node, and
\* its context held the chart node's error
C13_Witness ==
    /\ NoDataset /\ status = "ended"
    /\ TraceNodes = <<"planner", "viz_node", "responder">>
    /\ Contains(respContext, <<"Error:", "No data available for visualization.">>)

\* s is an initial segment of t
IsPrefix(s, t) == Len(s) <= Len(t) /\ s = SubSeq(t, 1, Len(s))

\* C14: in a run whose planner routing is sql_node neither retry loop is
\* ever invoked: the nodes executed are exactly planner, sql_node, responder,
\* whatever the plan's requires_viz flag and whether or not the SQL attempt
\* succeeds.
C14_SqlRouteRunsNoRetryLoop ==
    PlanRouting = <<"sql_node">> =>
        /\ IsPrefix(TraceNodes, <<"planner", "sql_node", "responder">>)
        /\ status = "ended" => TraceNodes = <<"planner", "sql_node", "responder">>
        /\ status = "running" => ENABLED RunStep
        /\ loop = NoLoop
        /\ toolResult.tool \notin RetryTools
        /\ Callers \subseteq {"planner", "sql", "responder"}

\* a run routed to sql_node under a plan that asks for a chart has ended
\* after a failed SQL attempt
C14_Witness ==
    /\ PlanRouting = <<"sql_node">> /\ PlanRequiresViz = JTrue
    /\ status = "ended" /\ state.error # None /\ state.sql_result = None
    /\ TraceNodes = <<"planner", "sql_node", "responder">>

\* the analysis succeeded earlier in the run: the executor node wrote
\* analysis_result
AnalysisWrote ==
    \E i \in 1..Len(trace) :
        trace[i].node = "executor" /\ "analysis_result" \in trace[i].wrote

\* C15: whenever the chart retry loop is invoked its data input is a
\* materialized table and never the lazy dataset handle: the analysis result
\* table when the analysis succeeded earlier in the run, and otherwise the
\* materialization of the dataset handle.
C15_ChartInputIsMaterialized ==
    loop.tool = "viz" =>
        /\ IsDataFrame(loop.data)
        /\ ~IsLazyFrame(loop.data)
        /\ loop.data # state.raw_dataframe
        /\ IF AnalysisWrote
           THEN /\ loop.data = state.analysis_result
                /\ \E i \in 1..Len(llmCalls) : llmCalls[i].by = "analyst"
           ELSE /\ Collect(state.raw_dataframe).ok
                /\ loop.data = Collect(state.raw_dataframe).val

\* the chart loop is at its second attempt on the table materialized from
\* the dataset handle, no analysis having run
C15_Witness ==
    /\ loop.tool = "viz" /\ loop.attempt = 2
    /\ TraceNodes = <<"planner", "viz_node">>
    /\ state.raw_dataframe = LfGood
    /\ loop.data = <<"DataFrame", "collect", "orders.csv">>

\* C16: in a run whose plan has routing=executor and requires_viz=false the
\* nodes executed are exactly planner, executor, responder, the chart loop is
\* never invoked, and figure is null in the final state.
C16_AnalysisOnlyRunHasNoChart ==
    (PlanRouting = <<"executor">> /\ PlanRequiresViz = JFalse) =>
        /\ IsPrefix(TraceNodes, <<"planner", "executor", "responder">>)
        /\ status = "ended" => TraceNodes = <<"planner", "executor", "responder">>
        /\ status = "running" => ENABLED RunStep
        /\ loop.tool # "viz" /\ toolResult.tool # "viz"
        /\ "viz" \notin Callers
        /\ state.figure = None

\* a run under an analysis-only plan has ended with an analysis table and
\* no figure
C16_Witness ==
    /\ PlanRouting = <<"executor">> /\ PlanRequiresViz = JFalse
    /\ status = "ended" /\ IsDataFrame(state.analysis_result)
    /\ state.figure = None
    /\ TraceNodes = <<"planner", "executor", "responder">>

\* C17 as stated: a retry loop never lets a failure escape to its caller:
\* every step of a loop that has been invoked either goes on to the next
\* attempt or returns a result record, whatever fails during the attempt,
\* the obtaining of the model included.
C17_LoopNeverRaises ==
    [][loop.tool \in RetryTools =>
          /\ status' # "crashed"
          /\ loop' = NoLoop => toolResult'.tool = loop.tool]_vars

\* every attempt of the invocation in loopCalls failed
AllAttemptsFailed == \A i \in 1..Len(loopCalls) : ~loopCalls[i].ok

\* C18 as stated: the retry budget R of both retry loops is the configured
\* max-retries value: a loop whose attempts all fail makes exactly R+1
\* attempts, R being settings.llm.max_retries.
C18_BudgetIsConfigured ==
    (LoopReturned /\ AllAttemptsFailed) =>
        /\ Len(loopCalls) = settings.max_retries + 1
        /\ toolResult.attempts = settings.max_retries + 1

\* the first attempt of the invocation in progress has been made, with the
\* response that an earlier invocation of the same loop, for the same
\* question and dataset, succeeded on at once
SameResponseAgain ==
    /\ InRetryLoop /\ previous.tool = LoopTool
    /\ previous.question = state.user_question
    /\ Len(loopCalls) = 1
    /\ ~lastResponse.raises /\ lastResponse.text = previous.response

\* C19: running a retry loop again with the same question, schema and a
\* model response that succeeded at attempt 1 before yields attempts=1,
\* success=true and the same payload and code again, whatever invocations
\* (successful or failed, of either loop) were made in between.
C19_RerunYieldsSameResult ==
    SameResponseAgain =>
        /\ loop = NoLoop
        /\ toolResult.success /\ toolResult.attempts = 1
        /\ toolResult.payload = previous.result.payload
        /\ toolResult.code = previous.result.code
        /\ toolResult = previous.result

\* the analysis loop, called for the third time, has succeeded at once again
\* on the response an earlier call succeeded on
C19_Witness ==
    /\ SameResponseAgain /\ LoopTool = "analyst" /\ run = 3
    /\ toolResult.success /\ toolResult.attempts = 1
    /\ IsDataFrame(toolResult.payload)

\* the planner's response holds no <plan>...</plan> section
NoPlanSection == TagMatch(lastResponse.text, "plan")[1] = 0

\* C20 as stated: when the planner's model response contains no plan-tagged
\* section the planner substitutes the fixed default plan whatever else the
\* response contains; it never parses the whole response text as the plan.
C20_NoPlanSectionGivesDefault ==
    (PlannerJustReturned /\ NoPlanSection) =>
        /\ state.plan = DefaultPlan(state.user_question)
        /\ state.next_node = <<"executor">>

----------------------------------------------------------------------------
(* C21..C30 *)

\* the planner's model has answered and planner_node has returned or raised;
\* no other node has run yet
PlannerAnswered ==
    /\ Len(trace) = 1 /\ trace[1].node = "planner"
    /\ lastResponse # NoOutcome /\ ~lastResponse.raises

\* C21 as stated: for every model response text planner_node returns an
\* update without raising, in which the plan has all of intent, primary_task,
\* requires_sql, requires_viz, chart_type, complexity, routing.
C21_PlannerAlwaysReturnsFullPlan ==
    PlannerAnswered =>
        /\ trace[1].done
        /\ "plan" \in trace[1].wrote
        /\ PlanKeys \subseteq DOMAIN state.plan

\* the responder has built its context and called the model
ResponderCalled == LastNode = "responder" /\ respContext # EmptyStr

\* the node before the responder was a data node whose tool returned a
\* failure: it wrote error and reported no success message
UpstreamToolFailed ==
    /\ Len(trace) >= 2 /\ ~NoDataset
    /\ LET e == trace[Len(trace) - 1]
       IN  /\ e.node \in DataNodes
           /\ "error" \in e.wrote /\ "messages" \notin e.wrote

\* C22 as stated: whenever the analysis loop exhausts its budget, the chart
\* loop exhausts its budget, or the SQL generator's single attempt fails, the
\* error field of the shared state is non-null when the responder runs and
\* the context the responder sends to the model includes that error.
C22_TerminalErrorReachesResponder ==
    (ResponderCalled /\ UpstreamToolFailed) =>
        /\ state.error # None
        /\ Contains(respContext, <<"Error:">> \o state.error)

\* the data input of the retry loop whose attempts loopCalls holds
LoopData ==
    IF loop.tool # "none" THEN loop.data
    ELSE IF LoopTool = "analyst" THEN state.raw_dataframe
    ELSE IF AnalysisWrote THEN state.analysis_result
    ELSE Collect(state.raw_dataframe).val

\* the named inputs of the generated code, and the name it must bind
InputNames(tool) == IF tool = "viz" THEN {"df", "go", "px", "pl"} ELSE {"pl", "lf"}
OutputName(tool) == IF tool = "viz" THEN "fig" ELSE "result"

\* a namespace that binds the named inputs and nothing else
InputsOnly(tool, data) ==
    [n \in InputNames(tool) |-> IF n \in {"df", "lf"} THEN data ELSE <<"module">>]

\* C23: at the start of every attempt's code execution the namespace holds
\* exactly the fixed named inputs (pl, lf for analysis; df, go, px, pl for
\* chart): every attempt that executes code fares exactly as its code does
\* in a namespace of the inputs alone, so a name bound by the code of an
\* earlier attempt (a rejected result or fig included) is unbound again.
C23_NamespaceFreshPerAttempt ==
    InRetryLoop =>
        \A n \in 1..Len(loopCalls) :
            LET c == loopCalls[n]
                r == Exec(c.code, InputsOnly(LoopTool, LoopData))
                out == NsGet(r.val, OutputName(LoopTool))
            IN  c.executed =>
                    /\ ~r.ok => (~c.ok /\ c.exc = r.exc)
                    /\ (r.ok /\ out = None) =>
                          (~c.ok /\ c.exc.site \in {"_run_code", "generate"}
                                 /\ c.exc.msg \in
                                       {<<"Code did not define a result variable.">>,
                                        <<"Code did not define a fig variable.">>})
                    /\ c.ok => (r.ok /\ toolResult.payload = out)

\* an analysis attempt whose code bound tmp and no result has failed, and the
\* next attempt, whose code reads tmp, has failed on the unbound name
C23_Witness ==
    /\ LoopTool = "analyst" /\ Len(loopCalls) >= 2
    /\ loopCalls[1].executed /\ loopCalls[1].code = <<"tmp=1">>
    /\ loopCalls[2].executed /\ Head(loopCalls[2].code) = "tmp"
    /\ loopCalls[2].exc.type = "NameError"

\* C24: the defensive "unexpected exit" result after the for loop is
\* unreachable in both retry loops: a loop that has returned has returned from
\* inside the loop, either the success of its last attempt or, all R+1
\* attempts having failed, the terminal failure of attempt R+1.
C24_UnexpectedExitUnreachable ==
    LoopReturned =>
        LET R == BudgetOf(LoopTool)
            n == Len(loopCalls)
        IN  /\ n \in 1..(R + 1)
            /\ toolResult.error # LoopUnexpectedExit(LoopTool, EmptyStr, R).error
            /\ toolResult # LoopUnexpectedExit(LoopTool, toolResult.code, R)
            /\ IF loopCalls[n].ok
               THEN toolResult = LoopSuccess(LoopTool, toolResult.payload,
                                             loopCalls[n].code, n)
               ELSE /\ n = R + 1
                    /\ toolResult = LoopFailure(LoopTool, toolResult.code,
                                                loopCalls[n].exc, R + 1)

\* a chart loop has returned the terminal failure of its last attempt, whose
\* model call failed
C24_Witness ==
    /\ toolResult.tool = "viz" /\ ~toolResult.success
    /\ Len(loopCalls) = VizMaxRetries + 1
    /\ loopCalls[VizMaxRetries + 1].exc.site = "invoke"
    /\ toolResult.attempts = VizMaxRetries + 1

\* the model's last response holds no <code>...</code> section, or one with
\* nothing but whitespace in it
NoCodeInResponse ==
    /\ lastResponse # NoOutcome /\ ~lastResponse.raises
    /\ LET m == TagMatch(lastResponse.text, "code")
       IN  m[1] = 0 \/ Strip(SubSeq(lastResponse.text, m[1] + 1, m[2] - 1)) = <<>>

\* C25: in a retry loop, when the model's response has no code-tagged
\* section (or an empty one), that attempt fails without executing any code,
\* adds exactly one error-history entry, and counts against the budget like
\* any other failed attempt.
C25_MissingCodeIsAFailedAttempt ==
    (InRetryLoop /\ loopCalls # <<>> /\ NoCodeInResponse) =>
        LET n == Len(loopCalls)
            c == loopCalls[n]
            R == BudgetOf(LoopTool)
            grown == Append(c.history, ErrorMsgOf(LoopTool, n, c.exc))
        IN  /\ ~c.executed /\ ~c.ok
            /\ c.assigned /\ c.code = EmptyStr
            /\ c.exc.type = "ValueError"
            /\ c.exc.site = IF LoopTool = "viz" THEN "generate" ELSE "analyze"
            /\ LoopTool = "analyst" =>
                  c.exc.msg = <<"LLM did not return a <code> block. Raw response:">>
                                \o Truncate(lastResponse.text, RawResponseLimit)
            /\ Len(c.history) = n - 1 /\ Len(grown) = n
            /\ IF n = R + 1
               THEN /\ loop = NoLoop /\ ~toolResult.success
                    /\ toolResult.attempts = R + 1
                    /\ toolResult.error = c.exc.msg
               ELSE /\ toolResult = NoResult
                    /\ loop.attempt = n + 1
                    /\ loop.error_history = grown

\* the second attempt of a chart loop got a response without a code section
\* and the loop has gone on to its third attempt with two history entries
C25_Witness ==
    /\ LoopTool = "viz" /\ Len(loopCalls) = 2 /\ NoCodeInResponse
    /\ TagMatch(lastResponse.text, "code")[1] = 0
    /\ loop.attempt = 3 /\ Len(loop.error_history) = 2

----------------------------------------------------------------------------
(* C26 *)

\* the header of the previous-failure section of a retry loop's prompt
FailureSection(tool) ==
    IF tool = "viz" THEN <<"Fix these errors:">>
    ELSE <<"YOUR PREVIOUS CODE FAILED. Study these errors and fix them:">>

\* the attempts made so far by the retry loop that is running or has just
\* returned
LoopAttempts == IF InRetryLoop THEN 1..Len(loopCalls) ELSE {}

\* C26: error history never carries over between retry-loop invocations: in
\* any sequence of invocations (same or different questions, analysis or
\* chart) the prompt of attempt 1 of each invocation is built from an empty
\* history and contains no previous-failure section, even when the preceding
\* invocation ended in failure; within one invocation the history only grows,
\* by one entry appended per failed attempt.
C26_HistoryStartsEmptyAndOnlyGrows ==
    \A i \in LoopAttempts :
        /\ loopCalls[i].attempt = 1 =>
              /\ loopCalls[i].history = <<>>
              /\ ~Contains(loopCalls[i].prompt, FailureSection(LoopTool))
        /\ i > 1 =>
              /\ IsPrefix(loopCalls[i - 1].history, loopCalls[i].history)
              /\ Len(loopCalls[i].history) = Len(loopCalls[i - 1].history) + 1
              /\ Contains(loopCalls[i].prompt, FailureSection(LoopTool))

\* an invocation that follows one ended in failure has made its first
\* attempt, which failed, and a second one
C26_Witness ==
    /\ previous.failed
    /\ InRetryLoop
    /\ Len(loopCalls) >= 2
    /\ loopCalls[1].attempt = 1
    /\ ~loopCalls[1].ok

----------------------------------------------------------------------------
(* C27..C29 *)

\* the fields node entries of the trace have written so far in this run
WrittenBy(tr, n) ==
    UNION {tr[i].wrote : i \in {j \in 1..Len(tr) : tr[j].node = n}}

WrittenInRun(tr) == UNION {tr[i].wrote : i \in 1..Len(tr)}

\* the step stays within one run of the graph
SameRun == run' = run

\* C27: no node ever writes the user_question or raw_dataframe fields of the
\* shared state: no step of a run changes either field and no node's update
\* names either, on every path, including failure paths.
C27_InputsAreNeverWritten ==
    [][SameRun =>
         /\ state'.user_question = state.user_question
         /\ state'.raw_dataframe = state.raw_dataframe
         /\ WrittenInRun(trace') \cap {"user_question", "raw_dataframe"} = {}]_vars

\* a run has ended on a failure path after three nodes returned an update,
\* with the question and the dataset still in the state
C27_Witness ==
    /\ status = "ended"
    /\ Truthy(state.error)
    /\ Len(trace) >= 3
    /\ state.user_question \in Questions
    /\ state.raw_dataframe \in Datasets \ {None}

\* the entries of the trace whose update names the plan field
PlanWrites(tr) == {i \in 1..Len(tr) : "plan" \in tr[i].wrote}

\* C28: the plan field is written exactly once per run, by the planner:
\* once the planner has returned, its update is the one entry of the trace
\* that names plan (none before it returns); executor, sql_node, viz_node and
\* responder never write it and no step after the planner's changes it, so
\* the plan read by the executor's routing and by the chart node is the one
\* the planner produced.
C28_PlanWrittenOnceByPlanner ==
    [][SameRun =>
         /\ PlanWrites(trace') =
               {i \in 1..Len(trace') : trace'[i].node = "planner" /\ trace'[i].done}
         /\ Cardinality(PlanWrites(trace')) <= 1
         /\ node # "planner" => state'.plan = state.plan]_vars

\* a run in which the planner asked for a chart has ended after executor and
\* viz_node both ran
C28_Witness ==
    /\ status = "ended"
    /\ TraceNodes = <<"planner", "executor", "viz_node", "responder">>
    /\ PlanWrites(trace) = {1}
    /\ PlanRequiresViz = JTrue

ResultFields ==
    {"analysis_result", "generated_code", "sql_query", "sql_result", "figure"}

\* C29: each node writes only its own result fields: the analysis node never
\* writes sql_query, sql_result, figure or final_answer; the SQL node never
\* writes analysis_result, generated_code, figure or final_answer; the chart
\* node never writes analysis_result, generated_code, sql_query, sql_result
\* or final_answer; the responder never writes error or any result field.
C29_NodesWriteOwnFields ==
    /\ WrittenBy(trace, "executor")
          \cap {"sql_query", "sql_result", "figure", "final_answer"} = {}
    /\ WrittenBy(trace, "sql_node")
          \cap {"analysis_result", "generated_code", "figure", "final_answer"} = {}
    /\ WrittenBy(trace, "viz_node")
          \cap {"analysis_result", "generated_code", "sql_query", "sql_result",
                "final_answer"} = {}
    /\ WrittenBy(trace, "responder") \cap ({"error"} \cup ResultFields) = {}

\* a run has ended in which a data node wrote a result field of its own and
\* the responder wrote the final answer
C29_Witness ==
    /\ status = "ended"
    /\ WrittenBy(trace, "responder") # {}
    /\ \/ "sql_query" \in WrittenBy(trace, "sql_node")
       \/ /\ "analysis_result" \in WrittenBy(trace, "executor")
          /\ "figure" \in WrittenBy(trace, "viz_node")

----------------------------------------------------------------------------
(* C30 *)

\* the model calls of the run made by caller c, and those made on the
\* fallback model
CallsBy(c) == {i \in 1..Len(llmCalls) : llmCalls[i].by = c}

FallbackCalls == {i \in 1..Len(llmCalls) : llmCalls[i].llm[2] = "fallback"}

\* the attempt of its retry loop that model call i of the run is
CallAttempt(i) == Cardinality({j \in CallsBy(llmCalls[i].by) : j <= i})

\* C30: the number of model calls in one pipeline run is bounded by
\* 2(R+1)+2: one planner call, at most R+1 analysis attempts, at most R+1
\* chart attempts, one responder call (R the budget of the retry loops); the
\* fallback model is called at most twice per run, only as attempt R+1 of a
\* retry loop; planner, SQL generator and responder always use the primary
\* model, and the SQL generator is called at most once.
C30_ModelCallsBounded ==
    /\ Len(llmCalls) <= (PolarsMaxRetries + 1) + (VizMaxRetries + 1) + 2
    /\ Cardinality(CallsBy("planner")) <= 1
    /\ Cardinality(CallsBy("responder")) <= 1
    /\ Cardinality(CallsBy("sql")) <= 1
    /\ Cardinality(CallsBy("analyst")) <= PolarsMaxRetries + 1
    /\ Cardinality(CallsBy("viz")) <= VizMaxRetries + 1
    /\ Cardinality(FallbackCalls) <= 2
    /\ \A i \in FallbackCalls :
          /\ llmCalls[i].by \in RetryTools
          /\ CallAttempt(i) = BudgetOf(llmCalls[i].by) + 1
    /\ \A i \in 1..Len(llmCalls) :
          llmCalls[i].by \in {"planner", "sql", "responder"}
              => llmCalls[i].llm[2] = "primary"

\* a run has ended with the bound met: both retry loops went to their last
\* attempt, each on the fallback model
C30_Witness ==
    /\ status = "ended"
    /\ Len(llmCalls) = (PolarsMaxRetries + 1) + (VizMaxRetries + 1) + 2
    /\ Cardinality(FallbackCalls) = 2

----------------------------------------------------------------------------
(* C31 *)

\* C31: the retry_count field of the shared state is never written by any
\* node: no node's update names it and it keeps the value of the initial
\* state through the whole run, however many attempts the analysis and chart
\* loops make.
C31_RetryCountNeverWritten ==
    [][SameRun =>
         /\ "retry_count" \notin WrittenInRun(trace')
         /\ state'.retry_count = state.retry_count
         /\ state'.retry_count =
               InitialState(state.user_question, state.raw_dataframe).retry_count]_vars

\* a run has ended in which both retry loops made retries, the chart loop
\* using up its budget, and retry_count is still the initial 0
C31_Witness ==
    /\ status = "ended"
    /\ Cardinality(CallsBy("analyst")) >= 2
    /\ Cardinality(CallsBy("viz")) = VizMaxRetries + 1
    /\ state.retry_count = 0

----------------------------------------------------------------------------
(* C32 *)

\* C32: starting from the fresh initial state, at every point of a run a
\* non-null figure or a non-null sql_result implies a null error field. (A
\* non-null analysis_result does not: C32_AnalysisResultWithError is
\* reachable.)
C32_FigureOrSqlResultMeansNoError ==
    (state.figure # None \/ state.sql_result # None) => state.error = None

\* the responder is about to run after an analysis success followed by a
\* chart failure: analysis_result and error are both set
C32_AnalysisResultWithError ==
    /\ status = "running" /\ node = "responder"
    /\ TraceNodes = <<"planner", "executor", "viz_node">>
    /\ state.analysis_result # None
    /\ state.error # None

\* a run has ended with a figure drawn, after retries, from an analysis
\* result, and no error
C32_Witness ==
    /\ status = "ended"
    /\ state.figure # None
    /\ state.analysis_result # None
    /\ Cardinality(CallsBy("viz")) >= 2
    /\ state.error = None

----------------------------------------------------------------------------
(* C33 *)

\* the attempts of the invocation whose model call returned a response
ResponseReturned == {i \in 1..Len(loopCalls) : loopCalls[i].assigned}

\* the latest of them
LatestResponse == CHOOSE i \in ResponseReturned : \A j \in ResponseReturned : j <= i

\* the retry loop has returned its terminal failure
TerminalFailure == LoopReturned /\ ~toolResult.success

\* C33: on terminal failure of a retry loop the returned code text is the
\* code extracted from the most recent attempt whose model call returned a
\* response (the empty string if that response had no code block, or if no
\* model call ever returned), while the returned error is that of attempt
\* R+1: when the model call of attempt R+1 itself fails, the code is that of
\* an earlier attempt.
C33_FailureCodeIsLatestExtracted ==
    TerminalFailure =>
        LET n == Len(loopCalls)
        IN  /\ n = BudgetOf(LoopTool) + 1
            /\ toolResult.error = loopCalls[n].exc.msg
            /\ toolResult.code =
                  IF ResponseReturned = {} THEN EmptyStr
                  ELSE loopCalls[LatestResponse].code
            /\ loopCalls[n].assigned =>
                  toolResult.code = ExtractTag(lastResponse.text, "code")
            /\ \A i \in 1..n :
                  (loopCalls[i].assigned /\ ~loopCalls[i].executed)
                      => loopCalls[i].code = EmptyStr

\* a loop has returned the failure of its last model call together with the
\* code of an earlier attempt
C33_Witness ==
    /\ TerminalFailure
    /\ ~loopCalls[Len(loopCalls)].assigned
    /\ ResponseReturned # {}
    /\ toolResult.code # EmptyStr
    /\ toolResult.code = loopCalls[LatestResponse].code
    /\ toolResult.error = loopCalls[Len(loopCalls)].exc.msg

====
